---- MODULE Spec2Model ----
(***************************************************************************)
(* State-machine model of the Danfoss Ally adapter: the write coordination *)
(* of src/main.js (poll cycle, local-write handler, soft refresh) and the  *)
(* API client of src/unnamed/part_001 (token, 401 retry).                  *)
(*                                                                         *)
(* Numbers are fixed-point integers in thousandths: the JavaScript number  *)
(* x is the integer 1000 * x.  Times are milliseconds as in the source.    *)
(***************************************************************************)
EXTENDS Integers, Sequences, FiniteSets, TLC

(* ------------------------------ constants ------------------------------ *)

\* one unit of a JavaScript number, in thousandths
Scale == 10 * 100

\* src/main.js:6-9
WRITE_HOLD_MS == 60000
ANTI_RACE_PAUSE_MS == 5000
LAG_SUPPRESS_MS == 15000
\* 0.05 in thousandths
TEMP_EPS == 50
\* delay of setTimeout in _softRefreshSoon
SOFT_REFRESH_MS == 1500

\* expires_in of a token response that has none, in seconds
DEFAULT_EXPIRES_IN == 1800
\* ensureToken refreshes a token that expires within this many seconds
TOKEN_MARGIN_S == 60
MIN_POLL_SEC == 30
MAX_POLL_SEC == 86400
DEFAULT_POLL_SEC == 60

\* bounds of the model
MaxTicks == 4
MaxCalls == 3
MaxRequests == 3
MaxRaw == 400
MaxWrites == 2

(* ------------------------------- values -------------------------------- *)
\* A JavaScript value: t is the tag, n the number (thousandths), s the
\* string, b the boolean; the fields a tag does not use hold a default.
Num(n) == [t |-> "number", n |-> n, s |-> "", b |-> FALSE]
NaN == [t |-> "nan", n |-> 0, s |-> "", b |-> FALSE]
Str(s) == [t |-> "string", n |-> 0, s |-> s, b |-> FALSE]
Bool(b) == [t |-> "boolean", n |-> 0, s |-> "", b |-> b]
Undefined == [t |-> "undefined", n |-> 0, s |-> "", b |-> FALSE]
Null == [t |-> "null", n |-> 0, s |-> "", b |-> FALSE]

\* typeof v
TypeOf(v) ==
    CASE v.t = "nan" -> "number"
      [] v.t = "null" -> "object"
      [] OTHER -> v.t

\* a === b (NaN is not equal to itself)
StrictEq(a, b) == a.t # "nan" /\ a = b

\* mutant of IsFiniteNum: every number passes
IsFiniteNum_Always(v) == TRUE

\* Number.isFinite on a value of type number
IsFiniteNum(v) == v.t = "number"

Abs(x) == IF x < 0 THEN -x ELSE x

\* Math.round of a fixed-point number: nearest integer, halves upwards
MathRound(x) == ((x + (Scale \div 2)) \div Scale) * Scale

\* numeric parse of the strings the model uses
ParseNumber(s) ==
    CASE s = "" -> Num(0)
      [] s = "21.5" -> Num(21500)
      [] s = "217" -> Num(217000)
      [] OTHER -> NaN

\* Number(v)
ToNumber(v) ==
    CASE v.t = "number" -> v
      [] v.t = "nan" -> NaN
      [] v.t = "string" -> ParseNumber(v.s)
      [] v.t = "boolean" -> Num(IF v.b THEN Scale ELSE 0)
      [] v.t = "null" -> Num(0)
      [] OTHER -> NaN

\* truthiness of a value
Truthy(v) ==
    CASE v.t = "number" -> v.n # 0
      [] v.t = "string" -> v.s # ""
      [] v.t = "boolean" -> v.b
      [] OTHER -> FALSE

\* String(v) for the values the model uses
ToStr(v) ==
    CASE v.t = "string" -> v.s
      [] v.t = "boolean" -> IF v.b THEN "true" ELSE "false"
      [] v.t = "nan" -> "NaN"
      [] v.t = "number" /\ v.n = 0 -> "0"
      [] v.t = "number" /\ v.n = Scale -> "1"
      [] v.t = "null" -> "null"
      [] v.t = "undefined" -> "undefined"
      [] OTHER -> "<number>"

(* --------------------------- static registries -------------------------- *)
NumberCodes ==
    {"temp_current", "temp_set", "upper_temp", "lower_temp", "at_home_setting",
     "leaving_home_setting", "pause_setting", "holiday_setting",
     "manual_mode_fast", "humidity_value", "battery_percentage"}
BooleanCodes == {"child_lock"}
StringCodes == {"mode", "SetpointChangeSource", "work_state", "output_status", "fault"}

\* TYPE_HINTS.get(code); "" when the code has no hint
TYPE_HINTS(code) ==
    CASE code \in NumberCodes -> "number"
      [] code \in BooleanCodes -> "boolean"
      [] code \in StringCodes -> "string"
      [] OTHER -> ""

WRITEABLE_CODES ==
    {"temp_set", "manual_mode_fast", "at_home_setting", "leaving_home_setting",
     "pause_setting", "holiday_setting", "mode", "child_lock", "SetpointChangeSource"}

\* the list tempLike of updateDevices and tempish of isSameVal
TempLike ==
    {"temp_current", "temp_set", "upper_temp", "lower_temp", "at_home_setting",
     "leaving_home_setting", "pause_setting", "holiday_setting", "manual_mode_fast"}

PresetCodes == {"at_home_setting", "leaving_home_setting", "pause_setting", "holiday_setting"}

\* String.prototype.trim: white space is taken off both ends
WhiteSpace == {" ", "\t", "\n", "\r"}

RECURSIVE TrimStart(_)
TrimStart(s) ==
    IF Len(s) > 0 /\ SubSeq(s, 1, 1) \in WhiteSpace
    THEN TrimStart(SubSeq(s, 2, Len(s)))
    ELSE s

RECURSIVE TrimEnd(_)
TrimEnd(s) ==
    IF Len(s) > 0 /\ SubSeq(s, Len(s), Len(s)) \in WhiteSpace
    THEN TrimEnd(SubSeq(s, 1, Len(s) - 1))
    ELSE s

\* mutant of Trim: only the leading white space is taken off
Trim_StartOnly(s) == TrimStart(s)

Trim(s) == TrimEnd(TrimStart(s))

\* String.prototype.toLowerCase, letter by letter (the letters A to Z)
UpperLetters == "ABCDEFGHIJKLMNOPQRSTUVWXYZ"
LowerLetters == "abcdefghijklmnopqrstuvwxyz"

LowerOf ==
    [c \in {SubSeq(UpperLetters, i, i) : i \in 1..Len(UpperLetters)} |->
        LET i == CHOOSE i \in 1..Len(UpperLetters) : SubSeq(UpperLetters, i, i) = c
        IN  SubSeq(LowerLetters, i, i)]

LowerChar(c) == IF c \in DOMAIN LowerOf THEN LowerOf[c] ELSE c

RECURSIVE ToLowerCase(_)
ToLowerCase(s) ==
    IF Len(s) = 0 THEN ""
    ELSE LowerChar(SubSeq(s, 1, 1)) \o ToLowerCase(SubSeq(s, 2, Len(s)))

\* String(x || '')
StringOrEmpty(x) == IF Truthy(x) THEN ToStr(x) ELSE ""

CODE_ALIASES ==
    [a \in {"pause_settings", "pause", "setpoint_change_source",
            "setpointchangesource", "setpoint_change"} |->
        IF a \in {"pause_settings", "pause"} THEN "pause_setting"
        ELSE "SetpointChangeSource"]

normalizeCode(codeRaw) ==
    LET c == Trim(StringOrEmpty(codeRaw))
        lower == ToLowerCase(c)
    IN  IF lower \in DOMAIN CODE_ALIASES THEN CODE_ALIASES[lower] ELSE c

\* sanitizeId: forbidden characters become "_" (device ids the model uses)
sanitizeId(raw) ==
    CASE raw = "rt.1" -> "rt_1"
      [] OTHER -> raw

coerceTypeByHint(code, value) ==
    LET hint == TYPE_HINTS(code)
    IN  CASE hint = "" -> value
          [] hint = "number" -> IF TypeOf(value) = "number" THEN value ELSE ToNumber(value)
          [] hint = "boolean" ->
                IF TypeOf(value) = "boolean" THEN value
                ELSE Bool(value = Str("true") \/ value = Bool(TRUE) \/ value = Num(Scale))
          [] OTHER -> IF value.t \in {"null", "undefined"} THEN Str("") ELSE Str(ToStr(value))

\* A number of the program is the IEEE 754 double nearest to its decimal x;
\* DoubleErr is double(x) - x exactly, in units of 2^-57 / 1000, for the
\* decimals the inputs use (x in thousandths).
DoubleErr(x) ==
    CASE x \in {0, 10000, 16000, 18500, 19000, 20000, 20500, 21000, 21500, 28000, 30000} -> 0
      [] x = 50 -> 400
      [] x = 60 -> -320
      [] x = 100 -> 800
      [] x = 150 -> -800
      [] x = 21020 -> -61440
      [] x \in {20050, 21050, 21550} -> 102400
      [] x = 21060 -> -184320
      [] x = 21100 -> 204800

\* Math.abs(x - y) <= TEMP_EPS on doubles: the difference of two doubles that
\* close is exact, so it is compared with the double 0.05 without rounding
WithinEps(x, y) ==
    LET hi == IF x >= y THEN x ELSE y
        lo == IF x >= y THEN y ELSE x
    IN  \/ hi - lo < TEMP_EPS
        \/ hi - lo = TEMP_EPS /\ DoubleErr(hi) - DoubleErr(lo) <= DoubleErr(TEMP_EPS)

\* isSameVal(code, a, b): compare only-on-change, with EPS for temperatures
isSameVal(code, a, b) ==
    IF TypeOf(a) = "number" /\ TypeOf(b) = "number"
    THEN IF code \in TempLike
         THEN a.t = "number" /\ b.t = "number" /\ WithinEps(a.n, b.n)
         ELSE StrictEq(a, b)
    ELSE StrictEq(a, b)

\* mutant of ScaleValue: the raw value is taken as it is
ScaleValue_Unscaled(code, rawValue) == coerceTypeByHint(code, rawValue)

\* the scaling of updateDevices: tenths to real units, then the type hint
ScaleValue(code, rawValue) ==
    LET v1 == IF code \in TempLike /\ rawValue.t = "number"
              THEN Num(rawValue.n \div 10) ELSE rawValue
        v2 == IF code = "humidity_value" /\ v1.t = "number"
              THEN Num(v1.n \div 10) ELSE v1
    IN  coerceTypeByHint(code, v2)

\* mutant of HoldSame: exact equality only, no tolerance
HoldSame_Exact(value, pval) == StrictEq(value, pval)

\* the comparison of a polled value with the pending value in the hold check
HoldSame(value, pval) ==
    \/ /\ TypeOf(value) = "number"
       /\ value.t = "number"
       /\ ToNumber(pval).t = "number"
       /\ WithinEps(value.n, ToNumber(pval).n)
    \/ StrictEq(value, pval)


(* -------------------------------- inputs ------------------------------- *)
\* the devices of the account, and the one whose states the user writes
Devices == {"rt1", "rt2"}
WriteDevices == {"rt1"}
\* the codes of the status pairs: codes of TYPE_HINTS, and window_state, a
\* code without a type hint
Codes ==
    {"lower_temp", "upper_temp", "temp_set", "temp_current", "manual_mode_fast",
     "child_lock", "mode", "SetpointChangeSource", "window_state"}
\* the states of the account: rt1 reports every code, rt2 its setpoint and
\* live temperature
Keys == (WriteDevices \X Codes) \cup ((Devices \ WriteDevices) \X {"temp_set", "temp_current"})

\* Date.now() when the adapter is constructed
StartTime == 2 * WRITE_HOLD_MS
\* the amount of time that passes in the i-th time step: the sums reach the
\* ends of the pause (5 s), lag (15 s) and hold (60 s) windows
TickStep(i) ==
    CASE i = 1 -> 1000
      [] i = 2 -> 4000
      [] i = 3 -> 10000
      [] i = 4 -> 45000
      [] OTHER -> 1000

Pair(c, v) == [code |-> c, value |-> v]
Dev(i, st) == [id |-> i, status |-> st]

\* the device lists getDevices may return (raw values are tenths): one with
\* the limits of the device, the others with a setpoint and the live temperature
Status(set, cur) == <<Pair("temp_set", set), Pair("temp_current", cur)>>
Snapshots ==
    {<<Dev("rt1", <<Pair("lower_temp", Num(160000)), Pair("upper_temp", Num(280000)),
                    Pair("temp_set", Num(280000))>>)>>,
     <<Dev("rt1", Status(Num(185000), Num(200000)))>>,
     <<Dev("rt1", Status(Num(210200), Num(200000)))>>,
     <<Dev("rt1", Status(Num(185000), Num(205000)))>>,
     <<Dev("rt1", Status(Str("n/a"), Num(200000)))>>}

\* device lists with two devices
DeviceLists ==
    {<<Dev("rt1", Status(Num(185000), Num(200000))), Dev("rt2", Status(Num(210000), Num(205000)))>>,
     <<Dev("rt1", Status(Num(190000), Num(200000))), Dev("rt2", Status(Num(210000), Num(205000)))>>,
     <<Dev("rt1", Status(Num(185000), Num(200000))), Dev("rt2", Status(Num(215000), Num(210000)))>>}

\* the device lists of the interleaved specification
RaceSnapshots ==
    {<<Dev("rt1", Status(x, Num(200000)))>> : x \in {Num(185000), Num(210200)}}

\* values of config.pollingInterval (seconds): missing, empty, not numeric,
\* numeric strings, booleans, and numbers around zero and around both limits
PollingIntervals ==
    {Undefined, Null, NaN, Str(""), Str("abc"), Str("217"), Str("21.5"), Bool(TRUE), Bool(FALSE)}
    \cup {Num(k * Scale) : k \in -3..61}
    \cup {Num(k * Scale + 500) : k \in {-1, 0, 29, 30, MAX_POLL_SEC - 1, MAX_POLL_SEC}}
    \cup {Num(k * Scale) : k \in (MAX_POLL_SEC - 2)..(MAX_POLL_SEC + 2)}
    \cup {Num(10 * MAX_POLL_SEC * Scale)}

\* codes and values isSameVal is applied to: temperatures, a number that is no
\* temperature, a string code; numbers 0.05 and 0.06 apart, strings, booleans
SameValCodes == {"temp_set", "temp_current", "humidity_value", "mode"}
SameVals ==
    {Num(n) : n \in {0, 50, 60, 100, 150, 20000, 20050, 21000, 21050, 21060, 21100, 21500,
                     21550}}
    \cup {NaN, Str("21.5"), Str("manual"), Bool(TRUE), Null, Undefined}

\* raw values (integer tenths) the cloud may report for a setpoint
RawValues == {Num(r * Scale) : r \in 0..MaxRaw}

\* the device ids getDeviceStatus is called with, and the response bodies of
\* the two device endpoints: with data.result an array, or without
StatusIds == {"rt1", "rt2", "rt9"}
Body(isArray, st) == [resultIsArray |-> isArray, content |-> st]
Bodies ==
    {Body(TRUE, Status(Num(185000), Num(200000))),
     Body(FALSE, Status(Num(185000), Num(200000))),
     Body(FALSE, <<>>)}

\* the specification of the poll timer: configured intervals (60 s, and 30 s
\* by the lower limit), the amounts of time that pass, the device list and
\* the write
GateIntervals == {Undefined, Num(10 * Scale)}
GateSteps == {2000, 28000, 30000}
GateSnapshots == {<<Dev("rt1", Status(Num(185000), Num(200000)))>>}

\* this.config: antiRacePauseMs as configured, and whether apiKey, apiSecret,
\* tokenUrl and apiBaseUrl are all set
Required == {"apiKey", "apiSecret", "tokenUrl", "apiBaseUrl"}
FullConfig(p) ==
    [antiRacePauseMs |-> p, apiKey |-> Str("key"), apiSecret |-> Str("secret"),
     tokenUrl |-> Str("https://token"), apiBaseUrl |-> Str("https://api")]
NoConfig ==
    [antiRacePauseMs |-> Undefined, apiKey |-> Undefined, apiSecret |-> Undefined,
     tokenUrl |-> Undefined, apiBaseUrl |-> Undefined]
Config(p, c) == IF c THEN FullConfig(p) ELSE [NoConfig EXCEPT !.antiRacePauseMs = p]
\* configurations in which one of the four required settings is missing or empty
IncompleteConfigs ==
    {[FullConfig(Undefined) EXCEPT ![f] = v] : f \in Required, v \in {Undefined, Str("")}}
Configs ==
    {Config(Undefined, TRUE), Config(Num(0), TRUE), Config(Undefined, FALSE)}
    \cup IncompleteConfigs
RaceConfigs == {Config(Undefined, TRUE), Config(Num(2000 * Scale), TRUE)}

\* the state-change events the host may deliver: (raw code, state)
NoEventState == [present |-> FALSE, val |-> Undefined, ack |-> FALSE]
EventState(v, a) == [present |-> TRUE, val |-> v, ack |-> a]
Event(c, st) == [code |-> c, state |-> st]
WriteVals == {Num(21050), Num(30000), Num(10000), NaN}
Events ==
    {Event("temp_set", EventState(v, FALSE)) : v \in WriteVals}
    \cup {Event("temp_set", NoEventState), Event("temp_set", EventState(Num(21050), TRUE)),
          Event("manual_mode_fast", EventState(Num(21050), FALSE)),
          Event("temp_current", EventState(Num(21050), FALSE))}
\* writes of the codes that are not temperatures
OtherEvents ==
    {Event("child_lock", EventState(Str("true"), FALSE)),
     Event("child_lock", EventState(Num(0), FALSE)),
     Event("mode", EventState(Str("holiday_sat"), FALSE)),
     Event("mode", EventState(Str("manual"), FALSE)),
     Event("mode", EventState(Str("eco"), FALSE)),
     Event("SetpointChangeSource", EventState(Str("schedule"), FALSE)),
     Event("SetpointChangeSource", EventState(Str("other"), FALSE))}
\* writes of every kind: the setpoint, the shortcut, and the codes that are
\* no temperatures
WriteEvents ==
    OtherEvents
    \cup {Event("temp_set", EventState(Num(21050), FALSE)),
          Event("manual_mode_fast", EventState(Num(30000), FALSE))}
\* events the write handler has to drop: acknowledged ones, writes to codes
\* that are read-only or unknown, and temperatures that are no finite number
DroppedEvents ==
    {Event("temp_set", EventState(Num(21050), TRUE)),
     Event("mode", EventState(Str("manual"), TRUE)),
     Event("child_lock", EventState(Bool(TRUE), TRUE)),
     Event("temp_current", EventState(Num(21050), FALSE)),
     Event("battery_percentage", EventState(Num(80 * Scale), FALSE)),
     Event("work_state", EventState(Str("manual"), FALSE)),
     Event("temp_set", EventState(NaN, FALSE)),
     Event("manual_mode_fast", EventState(Str("warm"), FALSE)),
     Event("at_home_setting", EventState(Undefined, FALSE)),
     Event("leaving_home_setting", EventState(NaN, FALSE)),
     Event("pause", EventState(Str("warm"), FALSE)),
     Event("holiday_setting", EventState(NaN, FALSE))}
GateEvents == {Event("temp_set", EventState(Num(21050), FALSE))}
\* the writes that are followed by a soft refresh, and the status arrays it
\* fetches: the written setpoint and mode with a live temperature that differs
\* from the stored one, and the values that are stored already
SoftEvents ==
    {Event("temp_set", EventState(Num(21000), FALSE)),
     Event("mode", EventState(Str("manual"), FALSE))}
SoftStatuses ==
    {<<Pair("temp_set", Num(210000)), Pair("temp_current", Num(205000)),
       Pair("upper_temp", Num(300000)), Pair("mode", Str("manual"))>>,
     <<Pair("temp_set", Num(200000)), Pair("temp_current", Num(200000))>>}
RaceEvents ==
    {Event("temp_set", EventState(Num(21050), FALSE)),
     Event("temp_set", EventState(Num(21050), TRUE))}

(* -------------------------------- state -------------------------------- *)
VARIABLES
    now,              \* Date.now()
    ticks,            \* number of time steps taken
    phase,            \* onReady: "constructed", "token", "firstPoll", "running",
                      \* "unconfigured", "failed"
    antiRacePauseMs,  \* this._antiRacePauseMs
    states,           \* the host's state store: key -> state
    objects,          \* the host's object store: id -> object
    pending,          \* this._pending: key -> { val, until }
    recentWriteTs,    \* this._recentWriteTs: key -> ts (0: no entry)
    lastWriteAt,      \* this._lastWriteAt
    poll,             \* the running updateDevices() call
    wr,               \* the running onStateChange() call
    softTimers,       \* timers set by _softRefreshSoon
    softRuns,         \* _softRefreshOne calls awaiting getDeviceStatus
    calls,            \* number of timer callbacks and state-change events so far
    ev,               \* history: what the last step did
    api,              \* the DanfossAPI object: tokenUrl, _token, _tokenExpiry
    rq,               \* the running _request() call of each caller
    calc,             \* a computation of the adapter on its own: input and result
    gs                \* the running getDeviceStatus() call

vars == <<now, ticks, phase, antiRacePauseMs, states, objects, pending, recentWriteTs,
          lastWriteAt, poll, wr, softTimers, softRuns, calls, ev, api, rq, calc, gs>>

\* the variables of the API client, and those of the adapter
apiVars == <<api, rq>>
adapterVars == <<ticks, phase, antiRacePauseMs, states, objects, pending, recentWriteTs,
                 lastWriteAt, poll, wr, softTimers, softRuns, calls, ev>>

\* the ids of the object store: a device is <<deviceId, "">>
ObjIds == {<<d, "">> : d \in Devices} \cup Keys
NoObject == [exists |-> FALSE, type |-> "", write |-> FALSE]
DeviceObject == [exists |-> TRUE, type |-> "device", write |-> FALSE]

NoState == [exists |-> FALSE, val |-> Undefined, ack |-> FALSE]
AckState(v) == [exists |-> TRUE, val |-> v, ack |-> TRUE]

\* the state store a starting adapter may find: empty, or with the limits
\* 16.0 and 28.0 of rt1 left by an earlier run
NoLimits == [k \in Keys |-> NoState]
Limits ==
    [k \in Keys |->
        CASE k = <<"rt1", "lower_temp">> -> AckState(Num(16000))
          [] k = <<"rt1", "upper_temp">> -> AckState(Num(28000))
          [] OTHER -> NoState]
\* the state store with a setpoint and live temperatures from earlier polls
Stored ==
    [k \in Keys |->
        CASE k = <<"rt1", "temp_set">> -> AckState(Num(20000))
          [] k = <<"rt1", "temp_current">> -> AckState(Num(20000))
          [] k = <<"rt1", "upper_temp">> -> AckState(Num(28000))
          [] k = <<"rt2", "temp_current">> -> AckState(Num(19000))
          [] OTHER -> NoState]
NoPending == [has |-> FALSE, val |-> Undefined, until |-> 0]
NoKey == <<"", "">>
\* the state-change event a step was called with, if any
\* and the configuration onReady found
NoInput == [given |-> FALSE, code |-> "", state |-> NoEventState, config |-> NoConfig]
Input(rawCode, state) ==
    [given |-> TRUE, code |-> rawCode, state |-> state, config |-> NoConfig]
Ev(k, key, v) == [kind |-> k, key |-> key, val |-> v, in |-> NoInput]
\* what onStateChange did with the event (rawCode, state)
EvIn(k, key, v, rawCode, state) ==
    [kind |-> k, key |-> key, val |-> v, in |-> Input(rawCode, state)]

PollIdle ==
    [pc |-> "idle", startedAt |-> 0, devices |-> <<>>, di |-> 0, ci |-> 0,
     code |-> "", value |-> Undefined, changed |-> 0, skipped |-> 0, held |-> 0]
WrIdle ==
    [pc |-> "idle", dev |-> "", code |-> "", val |-> Undefined,
     lower |-> NoState, upper |-> NoState, value |-> Undefined, local |-> Undefined]

\* the callers of _request: getDevices and sendCommand
Callers == {"getDevices", "sendCommand"}

\* no DanfossAPI object yet; token 0 is null; issued and requests count the
\* tokens the server has issued and the _request calls started
\* expiresIn is data.expires_in of the last token response
NoApi == [made |-> FALSE, tokenUrl |-> FALSE, token |-> 0, tokenExpiry |-> 0,
          expiresIn |-> Undefined, issued |-> 0, requests |-> 0]

\* a _request call: its position, the attempt, the bearer token _request put
\* into the headers it built for the last HTTP request, the names of the
\* headers of the configuration handed to the HTTP client, the numbers of HTTP
\* requests and token requests it has issued, the status of each attempt
\* (0: none) and how it ended
RqIdle == [pc |-> "idle", attempt |-> 0, bearer |-> 0, hdrs |-> {}, http |-> 0, posts |-> 0,
           s1 |-> 0, s2 |-> 0, out |-> "none", err |-> "none"]

\* no computation: its name, code, arguments and result
NoCalc == [op |-> "none", code |-> "", a |-> Undefined, b |-> Undefined,
           out |-> Undefined, done |-> FALSE]

InitStored(st) ==
    /\ now = StartTime
    /\ ticks = 0
    /\ phase = "constructed"
    /\ antiRacePauseMs = 0
    /\ states = st
    /\ objects = [i \in ObjIds |-> NoObject]
    /\ pending = [k \in Keys |-> NoPending]
    /\ recentWriteTs = [k \in Keys |-> 0]
    /\ lastWriteAt = 0
    /\ poll = PollIdle
    /\ wr = WrIdle
    /\ softTimers = {}
    /\ softRuns = {}
    /\ calls = 0
    /\ ev = Ev("init", NoKey, Undefined)
    /\ api = NoApi
    /\ rq = [c \in Callers |-> RqIdle]

InitAdapter == InitStored(NoLimits)

\* a getDeviceStatus call: the device id, the requests it has made so far
\* (source and result), how it ended and what it returned
\* and the list getDevices returned to it; n counts the calls
NoResult == [from |-> "none", status |-> <<>>]
GsIdle == [pc |-> "idle", n |-> 0, id |-> "", tried |-> <<>>, list |-> <<>>,
           out |-> "none", val |-> NoResult]

Init == InitAdapter /\ calc = NoCalc /\ gs = GsIdle


(* ------------------------------ time ----------------------------------- *)
\* Time passes between two steps of the event loop.
\* the calls that wait for the network (or for nothing) can wait that long;
\* the awaits of the state store return within one time step
Tick ==
    /\ ticks < MaxTicks
    /\ poll.pc \in {"idle", "getDevices"}
    /\ wr.pc \in {"idle", "send", "send2"}
    /\ now' = now + TickStep(ticks + 1)
    /\ ticks' = ticks + 1
    /\ ev' = Ev("tick", NoKey, Undefined)
    /\ UNCHANGED <<phase, antiRacePauseMs, objects, states, pending, recentWriteTs, lastWriteAt,
                   poll, wr, softTimers, softRuns, calls>>
    /\ UNCHANGED <<apiVars, calc, gs>>

(* --------------------------- updateDevices ----------------------------- *)
\* the first (device, pair) position at or after (di, ci); di beyond the list at the end
RECURSIVE NextPos(_, _, _)
NextPos(devices, di, ci) ==
    IF di > Len(devices) THEN <<di, 1>>
    ELSE IF ci > Len(devices[di].status) THEN NextPos(devices, di + 1, 1)
    ELSE <<di, ci>>

\* the loop moves to the pair at position pos, or the cycle ends
PollAt(p, pos) ==
    IF pos[1] > Len(p.devices)
    THEN [p EXCEPT !.pc = "idle", !.devices = <<>>, !.di = 0, !.ci = 0,
                   !.code = "", !.value = Undefined]
    ELSE [p EXCEPT !.pc = "code", !.di = pos[1], !.ci = pos[2],
                   !.code = "", !.value = Undefined]

\* "continue" and the end of the loop body: on to the next pair
PollAdvance(p) == PollAt(p, NextPos(p.devices, p.di, p.ci + 1))

\* setObjectNotExistsAsync(devPath, ...) for the devices the loop enters when
\* it goes from device di0 to device di1
WithDevices(objs, devices, di0, di1) ==
    [i \in ObjIds |->
        IF /\ ~objs[i].exists
           /\ \E j \in (di0 + 1)..di1 :
                 j <= Len(devices) /\ i = <<sanitizeId(devices[j].id), "">>
        THEN DeviceObject ELSE objs[i]]

\* the object store after "continue" or the end of the loop body
ObjectsAdvance(objs, p) ==
    WithDevices(objs, p.devices, p.di, NextPos(p.devices, p.di, p.ci + 1)[1])

\* forcedType: the type hint of the code, else the type of the value
ForcedType(code, value) ==
    IF TYPE_HINTS(code) # "" THEN TYPE_HINTS(code)
    ELSE IF TypeOf(value) = "number" THEN "number"
    ELSE IF TypeOf(value) = "boolean" THEN "boolean" ELSE "string"

\* the state object the loop creates, or extends an existing one to
StateObject(code, value) ==
    [exists |-> TRUE, type |-> ForcedType(code, value), write |-> code \in WRITEABLE_CODES]

\* mutant of GateSkips: a poll exactly at the end of the window is skipped too
GateSkips_Inclusive(startedAt, lastWrite, pause) == startedAt - lastWrite <= pause

\* the anti-race gate of updateDevices
GateSkips(startedAt, lastWrite, pause) == startedAt - lastWrite < pause

\* updateDevices() up to its first await: the gate, then the call of getDevices
UpdateDevicesStart(pause) ==
    /\ poll.pc = "idle"
    /\ IF GateSkips(now, lastWriteAt, pause)
       THEN /\ poll' = [PollIdle EXCEPT !.startedAt = now]
            /\ ev' = Ev("gateSkip", NoKey, Undefined)
       ELSE /\ poll' = [PollIdle EXCEPT !.pc = "getDevices", !.startedAt = now]
            /\ ev' = Ev("pollFetch", NoKey, Undefined)
    /\ UNCHANGED <<now, ticks, states, objects, pending, recentWriteTs, lastWriteAt, wr,
                   softTimers, softRuns>>
    /\ UNCHANGED <<apiVars, calc, gs>>

\* mutant of PauseOfConfig: the pause is as long as the hold
PauseOfConfig_Minute(cfg) == WRITE_HOLD_MS

\* Number(this.config?.antiRacePauseMs) || ANTI_RACE_PAUSE_MS
PauseOfConfig(cfg) ==
    IF Truthy(ToNumber(cfg)) THEN ToNumber(cfg).n \div Scale ELSE ANTI_RACE_PAUSE_MS

\* mutant of ConfigComplete: the API base URL is not required
ConfigComplete_NoBaseUrl(cfg) ==
    Truthy(cfg.apiKey) /\ Truthy(cfg.apiSecret) /\ Truthy(cfg.tokenUrl)

\* !(!apiKey || !apiSecret || !tokenUrl || !apiBaseUrl)
ConfigComplete(cfg) ==
    ~(~Truthy(cfg.apiKey) \/ ~Truthy(cfg.apiSecret) \/ ~Truthy(cfg.tokenUrl)
        \/ ~Truthy(cfg.apiBaseUrl))

\* onReady up to "await this.api.ensureToken()": the pause window is set; with
\* an incomplete configuration the adapter warns and stays idle
OnReady(cfg) ==
    /\ phase = "constructed"
    /\ antiRacePauseMs' = PauseOfConfig(cfg.antiRacePauseMs)
    /\ phase' = IF ConfigComplete(cfg) THEN "token" ELSE "unconfigured"
    /\ ev' = [Ev(IF ConfigComplete(cfg) THEN "startup" ELSE "missingConfig", NoKey, Undefined)
                 EXCEPT !.in = [NoInput EXCEPT !.config = cfg]]
    /\ UNCHANGED <<now, ticks, states, objects, pending, recentWriteTs, lastWriteAt,
                   poll, wr, softTimers, softRuns, calls>>
    /\ UNCHANGED <<apiVars, calc, gs>>

\* mutant of IntervalSec: the lower limit is not applied
IntervalSec_NoFloor(pollingInterval) ==
    LET given == IF Truthy(pollingInterval) THEN pollingInterval ELSE Num(DEFAULT_POLL_SEC * Scale)
        n0 == ToNumber(given)
        n1 == IF ~IsFiniteNum(n0) THEN Num(DEFAULT_POLL_SEC * Scale) ELSE n0
    IN  IF n1.n > MAX_POLL_SEC * Scale THEN Num(MAX_POLL_SEC * Scale) ELSE n1

\* the interval of the poll timer in seconds, from config.pollingInterval
IntervalSec(pollingInterval) ==
    LET given == IF Truthy(pollingInterval) THEN pollingInterval ELSE Num(DEFAULT_POLL_SEC * Scale)
        n0 == ToNumber(given)
        n1 == IF ~IsFiniteNum(n0) THEN Num(DEFAULT_POLL_SEC * Scale) ELSE n0
        n2 == IF n1.n < MIN_POLL_SEC * Scale THEN Num(MIN_POLL_SEC * Scale) ELSE n1
    IN  IF n2.n > MAX_POLL_SEC * Scale THEN Num(MAX_POLL_SEC * Scale) ELSE n2

\* onReady computes the interval for setInterval
SetPollInterval ==
    /\ calc.op = "interval"
    /\ ~calc.done
    /\ calc' = [calc EXCEPT !.out = IntervalSec(calc.a), !.done = TRUE]
    /\ UNCHANGED <<now, adapterVars, apiVars, gs>>

\* isSameVal(code, a, b) is called
CallIsSameVal ==
    /\ calc.op = "isSameVal"
    /\ ~calc.done
    /\ calc' = [calc EXCEPT !.out = Bool(isSameVal(calc.code, calc.a, calc.b)), !.done = TRUE]
    /\ UNCHANGED <<now, adapterVars, apiVars, gs>>

\* mutant of OnReadyTokenFail: the timer is set and the patterns are
\* subscribed all the same
OnReadyTokenFail_Subscribes ==
    /\ phase = "token"
    /\ phase' = "running"
    /\ ev' = Ev("startupFailed", NoKey, Undefined)
    /\ UNCHANGED <<now, ticks, antiRacePauseMs, states, objects, pending, recentWriteTs,
                   lastWriteAt, poll, wr, softTimers, softRuns, calls>>
    /\ UNCHANGED <<apiVars, calc, gs>>

\* ensureToken() fails at startup: the catch of onReady logs the error; no
\* timer is set and nothing is subscribed
OnReadyTokenFail ==
    /\ phase = "token"
    /\ phase' = "failed"
    /\ ev' = Ev("startupFailed", NoKey, Undefined)
    /\ UNCHANGED <<now, ticks, antiRacePauseMs, states, objects, pending, recentWriteTs,
                   lastWriteAt, poll, wr, softTimers, softRuns, calls>>
    /\ UNCHANGED <<apiVars, calc, gs>>

\* ensureToken() returns at startup: the first poll cycle starts
OnReadyTokenOk ==
    /\ phase = "token"
    /\ phase' = "firstPoll"
    /\ UpdateDevicesStart(antiRacePauseMs)
    /\ UNCHANGED <<antiRacePauseMs, calls>>

\* onReady after the first cycle: setInterval and subscribeStates
OnReadyResume ==
    /\ phase = "firstPoll"
    /\ poll.pc = "idle"
    /\ phase' = "running"
    /\ ev' = Ev("subscribed", NoKey, Undefined)
    /\ UNCHANGED <<now, ticks, antiRacePauseMs, objects, states, pending, recentWriteTs,
                   lastWriteAt, poll, wr, softTimers, softRuns, calls>>
    /\ UNCHANGED <<apiVars, calc, gs>>

\* the setInterval callback
PollTimer ==
    /\ phase = "running"
    /\ calls < MaxCalls
    /\ calls' = calls + 1
    /\ UpdateDevicesStart(antiRacePauseMs)
    /\ UNCHANGED <<phase, antiRacePauseMs>>

\* getDevices() fails: the catch of updateDevices logs the error
PollGetDevicesFail ==
    /\ poll.pc = "getDevices"
    /\ poll' = [poll EXCEPT !.pc = "idle"]
    /\ ev' = Ev("pollError", NoKey, Undefined)
    /\ UNCHANGED <<now, ticks, phase, antiRacePauseMs, objects, states, pending, recentWriteTs,
                   lastWriteAt, wr, softTimers, softRuns, calls>>
    /\ UNCHANGED <<apiVars, calc, gs>>

\* getDevices() returns: no devices ends the cycle, else the loop starts
PollGetDevicesReturn(devices) ==
    /\ poll.pc = "getDevices"
    /\ IF Len(devices) = 0
       THEN /\ poll' = [poll EXCEPT !.pc = "idle"]
            /\ ev' = Ev("noDevices", NoKey, Undefined)
            /\ UNCHANGED objects
       ELSE /\ poll' = PollAt([poll EXCEPT !.devices = devices], NextPos(devices, 1, 1))
            /\ objects' = WithDevices(objects, devices, 0, NextPos(devices, 1, 1)[1])
            /\ ev' = Ev("devices", NoKey, Undefined)
    /\ UNCHANGED <<now, ticks, phase, antiRacePauseMs, states, pending, recentWriteTs,
                   lastWriteAt, wr, softTimers, softRuns, calls>>
    /\ UNCHANGED <<apiVars, calc, gs>>

\* an awaited adapter call of the loop body (getObjectAsync, setObjectAsync,
\* extendObjectAsync, getStateAsync, setStateAsync) rejects: the catch of
\* updateDevices, which encloses the loop, logs the error and the call returns
PollLoopFail ==
    /\ poll.pc \in {"code", "lagGet", "curGet"}
    /\ poll' = PollAt(poll, <<Len(poll.devices) + 1, 1>>)
    /\ ev' = Ev("pollError", <<sanitizeId(poll.devices[poll.di].id), "">>, Undefined)
    /\ UNCHANGED <<now, ticks, phase, antiRacePauseMs, objects, states, pending, recentWriteTs,
                   lastWriteAt, wr, softTimers, softRuns, calls>>
    /\ UNCHANGED <<apiVars, calc, gs>>

\* the pair the loop is at
PollDevId == sanitizeId(poll.devices[poll.di].id)
PollPair == poll.devices[poll.di].status[poll.ci]
PollCode == sanitizeId(normalizeCode(Str(PollPair.code)))
PollValue == ScaleValue(PollCode, PollPair.value)
PollKey == <<PollDevId, PollCode>>

\* mutant of HoldActive: the expiry is not looked at
HoldActive_NoExpiry(pend, startedAt) == pend.has

\* the hold check applies: a pending write whose expiry is after the poll start
HoldActive(pend, startedAt) == pend.has /\ startedAt < pend.until

\* mutant of LagActive: no window at all
LagActive_NoWindow(lastWriteTs, startedAt) ==
    lastWriteTs # 0 /\ startedAt - lastWriteTs < 0

\* the lag-suppression check applies
LagActive(lastWriteTs, startedAt) ==
    lastWriteTs # 0 /\ startedAt - lastWriteTs < LAG_SUPPRESS_MS

\* mutant of PollHoldCheck: a poll that finds a hold in force extends it
PollHoldCheck_ExtendsHold ==
    /\ poll.pc = "code"
    /\ LET code == PollCode
           value == PollValue
           key == PollKey
           pend == pending[key]
           p == [poll EXCEPT !.code = code, !.value = value]
           goOn == IF LagActive(recentWriteTs[key], poll.startedAt)
                   THEN [p EXCEPT !.pc = "lagGet"] ELSE [p EXCEPT !.pc = "curGet"]
           synced == [objects EXCEPT ![key] = StateObject(code, value)]
       IN  IF HoldActive(pend, poll.startedAt)
           THEN IF HoldSame(value, pend.val)
                THEN /\ pending' = [pending EXCEPT ![key] = NoPending]
                     /\ poll' = goOn
                     /\ objects' = synced
                     /\ ev' = Ev("match", key, value)
                ELSE /\ poll' = PollAdvance([p EXCEPT !.held = @ + 1])
                     /\ objects' = ObjectsAdvance(synced, poll)
                     /\ ev' = Ev("held", key, value)
                     /\ pending' = [pending EXCEPT
                                       ![key].until = poll.startedAt + WRITE_HOLD_MS]
           ELSE /\ poll' = goOn
                /\ objects' = synced
                /\ ev' = Ev("noHold", key, value)
                /\ UNCHANGED pending
    /\ UNCHANGED <<now, ticks, phase, antiRacePauseMs, states, recentWriteTs,
                   lastWriteAt, wr, softTimers, softRuns, calls>>
    /\ UNCHANGED <<apiVars, calc, gs>>

\* mutant of PollHoldCheck: the object of a held code is left as it is
PollHoldCheck_HeldUnsynced ==
    /\ poll.pc = "code"
    /\ LET code == PollCode
           value == PollValue
           key == PollKey
           pend == pending[key]
           p == [poll EXCEPT !.code = code, !.value = value]
           goOn == IF LagActive(recentWriteTs[key], poll.startedAt)
                   THEN [p EXCEPT !.pc = "lagGet"] ELSE [p EXCEPT !.pc = "curGet"]
           synced == [objects EXCEPT ![key] = StateObject(code, value)]
       IN  IF HoldActive(pend, poll.startedAt)
           THEN IF HoldSame(value, pend.val)
                THEN /\ pending' = [pending EXCEPT ![key] = NoPending]
                     /\ poll' = goOn
                     /\ objects' = synced
                     /\ ev' = Ev("match", key, value)
                ELSE /\ poll' = PollAdvance([p EXCEPT !.held = @ + 1])
                     /\ objects' = ObjectsAdvance(objects, poll)
                     /\ ev' = Ev("held", key, value)
                     /\ UNCHANGED pending
           ELSE /\ poll' = goOn
                /\ objects' = synced
                /\ ev' = Ev("noHold", key, value)
                /\ UNCHANGED pending
    /\ UNCHANGED <<now, ticks, phase, antiRacePauseMs, states, recentWriteTs,
                   lastWriteAt, wr, softTimers, softRuns, calls>>
    /\ UNCHANGED <<apiVars, calc, gs>>

\* One pair of the loop, from the normalisation to the first getStateAsync:
\* the state object is created or extended, then the hold check, then the
\* choice between the lag check and the change check.
PollHoldCheck ==
    /\ poll.pc = "code"
    /\ LET code == PollCode
           value == PollValue
           key == PollKey
           pend == pending[key]
           p == [poll EXCEPT !.code = code, !.value = value]
           goOn == IF LagActive(recentWriteTs[key], poll.startedAt)
                   THEN [p EXCEPT !.pc = "lagGet"] ELSE [p EXCEPT !.pc = "curGet"]
           synced == [objects EXCEPT ![key] = StateObject(code, value)]
       IN  IF HoldActive(pend, poll.startedAt)
           THEN IF HoldSame(value, pend.val)
                THEN /\ pending' = [pending EXCEPT ![key] = NoPending]
                     /\ poll' = goOn
                     /\ objects' = synced
                     /\ ev' = Ev("match", key, value)
                ELSE /\ poll' = PollAdvance([p EXCEPT !.held = @ + 1])
                     /\ objects' = ObjectsAdvance(synced, poll)
                     /\ ev' = Ev("held", key, value)
                     /\ UNCHANGED pending
           ELSE /\ poll' = goOn
                /\ objects' = synced
                /\ ev' = Ev("noHold", key, value)
                /\ UNCHANGED pending
    /\ UNCHANGED <<now, ticks, phase, antiRacePauseMs, states, recentWriteTs,
                   lastWriteAt, wr, softTimers, softRuns, calls>>
    /\ UNCHANGED <<apiVars, calc, gs>>

\* cur && cur.val !== undefined && isSameVal(code, cur.val, value)
SameAsStored(cur, code, value) ==
    cur.exists /\ cur.val.t # "undefined" /\ isSameVal(code, cur.val, value)

\* the lag check after its getStateAsync: a differing cloud value is skipped
PollLagResume ==
    /\ poll.pc = "lagGet"
    /\ LET key == <<PollDevId, poll.code>>
       IN  IF SameAsStored(states[key], poll.code, poll.value)
           THEN /\ poll' = [poll EXCEPT !.pc = "curGet"]
                /\ ev' = Ev("lagSame", key, poll.value)
                /\ UNCHANGED objects
           ELSE /\ poll' = PollAdvance(poll)
                /\ objects' = ObjectsAdvance(objects, poll)
                /\ ev' = Ev("suppress", key, poll.value)
    /\ UNCHANGED <<now, ticks, phase, antiRacePauseMs, states, pending, recentWriteTs,
                   lastWriteAt, wr, softTimers, softRuns, calls>>
    /\ UNCHANGED <<apiVars, calc, gs>>

\* the change check after its getStateAsync: write only if changed
PollCurResume ==
    /\ poll.pc = "curGet"
    /\ LET key == <<PollDevId, poll.code>>
       IN  IF SameAsStored(states[key], poll.code, poll.value)
           THEN /\ poll' = PollAdvance([poll EXCEPT !.skipped = @ + 1])
                /\ ev' = Ev("skip", key, poll.value)
                /\ UNCHANGED states
           ELSE /\ poll' = PollAdvance([poll EXCEPT !.changed = @ + 1])
                /\ states' = [states EXCEPT ![key] = AckState(poll.value)]
                /\ ev' = Ev("set", key, poll.value)
    /\ objects' = ObjectsAdvance(objects, poll)
    /\ UNCHANGED <<now, ticks, phase, antiRacePauseMs, pending, recentWriteTs,
                   lastWriteAt, wr, softTimers, softRuns, calls>>
    /\ UNCHANGED <<apiVars, calc, gs>>


(* --------------------------- onStateChange ----------------------------- *)
\* mutant of TempWriteCodes: the live temperature is handled as a setpoint
TempWriteCodes_WithCurrent ==
    {"manual_mode_fast", "temp_set", "temp_current"} \cup PresetCodes

TempWriteCodes == {"manual_mode_fast", "temp_set"} \cup PresetCodes

\* mutant of SendCode: every code is submitted under its own name
SendCode_Own(code) == code

\* the code of the command a write submits, and of its bookkeeping
SendCode(code) == IF code = "manual_mode_fast" THEN "temp_set" ELSE code

MODE_ALIASES ==
    [a \in {"holiday_sat", "manual", "leaving_home", "pause", "at_home", "holiday", "auto"} |->
        IF a = "holiday_sat" THEN "holiday" ELSE a]

normalizeMode(modeRaw) ==
    LET m == Trim(StringOrEmpty(modeRaw))
        lower == ToLowerCase(m)
    IN  IF lower \in DOMAIN MODE_ALIASES THEN MODE_ALIASES[lower] ELSE m

\* child_lock: val === true || val === 'true' || val === 1
BoolVal(val) == val = Bool(TRUE) \/ val = Str("true") \/ val = Num(Scale)

\* SetpointChangeSource: the trimmed value if allowed, else 'Externally'
ChangeSource(val) ==
    LET v == Trim(ToStr(val))
    IN  IF v \in {"schedule", "Externally"} THEN v ELSE "Externally"

\* A state-change event arrives: the guards, the normalisation and the branch
\* of the code up to its first await (getStateAsync of prepareTempValue10 for
\* a temperature code, sendOne for the others).
\* mutant of AckIgnored: acknowledged events are handled like commands
AckIgnored_Never(state) == FALSE

\* if (state.ack) return
AckIgnored(state) == state.ack

OnStateChange(deviceIdRaw, rawCode, state) ==
    /\ phase = "running"
    /\ wr.pc = "idle"
    /\ calls < MaxCalls
    /\ calls' = calls + 1
    /\ LET deviceId == sanitizeId(deviceIdRaw)
           code == sanitizeId(normalizeCode(Str(rawCode)))
           key == <<deviceId, code>>
           w == [WrIdle EXCEPT !.dev = deviceId, !.code = code, !.val = state.val]
       IN  IF ~state.present
           THEN /\ ev' = EvIn("noState", key, Undefined, rawCode, state)
                /\ UNCHANGED wr
           ELSE IF AckIgnored(state)
           THEN /\ ev' = EvIn("ackIgnored", key, state.val, rawCode, state)
                /\ UNCHANGED wr
           ELSE IF code \in TempWriteCodes
           THEN IF ~IsFiniteNum(ToNumber(state.val))
                THEN /\ ev' = EvIn("invalidTemp", key, state.val, rawCode, state)
                     /\ UNCHANGED wr
                ELSE /\ wr' = [w EXCEPT !.pc = "getLower"]
                     /\ ev' = EvIn("write", key, state.val, rawCode, state)
           ELSE IF code = "child_lock"
           THEN /\ wr' = [w EXCEPT !.pc = "send",
                                   !.value = Num(IF BoolVal(state.val) THEN Scale ELSE 0),
                                   !.local = Bool(BoolVal(state.val))]
                /\ ev' = EvIn("submit", key, Num(IF BoolVal(state.val) THEN Scale ELSE 0), rawCode, state)
           ELSE IF code = "mode"
           THEN /\ wr' = [w EXCEPT !.pc = "send",
                                   !.value = Str(normalizeMode(Str(ToStr(state.val)))),
                                   !.local = Str(normalizeMode(Str(ToStr(state.val))))]
                /\ ev' = EvIn("submit", key, Str(normalizeMode(Str(ToStr(state.val)))), rawCode, state)
           ELSE IF code = "SetpointChangeSource"
           THEN /\ wr' = [w EXCEPT !.pc = "send",
                                   !.value = Str(ChangeSource(state.val)),
                                   !.local = Str(ChangeSource(state.val))]
                /\ ev' = EvIn("submit", key, Str(ChangeSource(state.val)), rawCode, state)
           ELSE /\ ev' = EvIn(IF code \notin WRITEABLE_CODES THEN "readOnly" ELSE "unhandled",
                              key, state.val, rawCode, state)
                /\ UNCHANGED wr
    /\ UNCHANGED <<now, ticks, phase, antiRacePauseMs, objects, states, pending, recentWriteTs,
                   lastWriteAt, poll, softTimers, softRuns>>
    /\ UNCHANGED <<apiVars, calc, gs>>

\* prepareTempValue10: getStateAsync(lower_temp) returns
WrLowerResume ==
    /\ wr.pc = "getLower"
    /\ wr' = [wr EXCEPT !.pc = "getUpper", !.lower = states[<<wr.dev, "lower_temp">>]]
    /\ ev' = Ev("readLower", <<wr.dev, wr.code>>, Undefined)
    /\ UNCHANGED <<now, ticks, phase, antiRacePauseMs, objects, states, pending, recentWriteTs,
                   lastWriteAt, poll, softTimers, softRuns, calls>>
    /\ UNCHANGED <<apiVars, calc, gs>>

\* a limit is applied only if it is stored as a number
HasLimit(st) == st.exists /\ TypeOf(st.val) = "number"

\* Math.max / Math.min with a stored limit (NaN is contagious)
MaxWith(target, lim) ==
    IF target.t = "nan" \/ lim.t = "nan" THEN NaN
    ELSE Num(IF target.n >= lim.n THEN target.n ELSE lim.n)
MinWith(target, lim) ==
    IF target.t = "nan" \/ lim.t = "nan" THEN NaN
    ELSE Num(IF target.n <= lim.n THEN target.n ELSE lim.n)

\* the clamp of prepareTempValue10
ClampTarget(v, lower, upper) ==
    LET t0 == ToNumber(v)
        t1 == IF HasLimit(lower) THEN MaxWith(t0, lower.val) ELSE t0
    IN  IF HasLimit(upper) THEN MinWith(t1, upper.val) ELSE t1

\* mutant of PrepareTempValue10: scaled and rounded first, clamped afterwards
PrepareTempValue10_ScaleFirst(v, lower, upper) ==
    ClampTarget(Num(MathRound(ToNumber(v).n * 10)), lower, upper)

\* v10 = Math.round(target * 10)
PrepareTempValue10(v, lower, upper) ==
    LET target == ClampTarget(v, lower, upper)
    IN  IF target.t = "nan" THEN NaN ELSE Num(MathRound(target.n * 10))

\* the value a temperature write stores locally and registers as pending:
\* Number(val), the requested value
LocalValue(val, lower, upper) == ToNumber(val)

\* prepareTempValue10: getStateAsync(upper_temp) returns, the value is clamped
\* and scaled, and sendOne submits the command
WrUpperResume ==
    /\ wr.pc = "getUpper"
    /\ LET upper == states[<<wr.dev, "upper_temp">>]
           v10 == PrepareTempValue10(wr.val, wr.lower, upper)
       IN  /\ wr' = [wr EXCEPT !.pc = "send", !.upper = upper, !.value = v10,
                               !.local = LocalValue(wr.val, wr.lower, upper)]
           /\ ev' = Ev("submit", <<wr.dev, SendCode(wr.code)>>, v10)
    /\ UNCHANGED <<now, ticks, phase, antiRacePauseMs, objects, states, pending, recentWriteTs,
                   lastWriteAt, poll, softTimers, softRuns, calls>>
    /\ UNCHANGED <<apiVars, calc, gs>>

\* mutant of WrChildLockFallback: the catch submits the number once more
WrChildLockFallback_SameEncoding ==
    /\ wr.pc = "send"
    /\ wr.code = "child_lock"
    /\ wr' = [wr EXCEPT !.pc = "send2"]
    /\ ev' = Ev("submit", <<wr.dev, wr.code>>, wr.value)
    /\ UNCHANGED <<now, ticks, phase, antiRacePauseMs, objects, states, pending, recentWriteTs,
                   lastWriteAt, poll, softTimers, softRuns, calls>>
    /\ UNCHANGED <<apiVars, calc, gs>>

\* child_lock: sendOne with 1/0 fails, the catch submits the boolean instead
WrChildLockFallback ==
    /\ wr.pc = "send"
    /\ wr.code = "child_lock"
    /\ wr' = [wr EXCEPT !.pc = "send2", !.value = wr.local]
    /\ ev' = Ev("submit", <<wr.dev, wr.code>>, wr.local)
    /\ UNCHANGED <<now, ticks, phase, antiRacePauseMs, objects, states, pending, recentWriteTs,
                   lastWriteAt, poll, softTimers, softRuns, calls>>
    /\ UNCHANGED <<apiVars, calc, gs>>

\* mutant of WrSendFail: the local state is set although the submission failed
WrSendFail_LocalSet ==
    /\ \/ wr.pc = "send" /\ wr.code # "child_lock"
       \/ wr.pc = "send2"
    /\ wr' = WrIdle
    /\ states' = [states EXCEPT ![<<wr.dev, SendCode(wr.code)>>] = AckState(wr.local)]
    /\ ev' = Ev("sendFailed", <<wr.dev, SendCode(wr.code)>>, wr.val)
    /\ UNCHANGED <<now, ticks, phase, antiRacePauseMs, objects, pending, recentWriteTs,
                   lastWriteAt, poll, softTimers, softRuns, calls>>
    /\ UNCHANGED <<apiVars, calc, gs>>

\* sendOne fails: the catch of onStateChange logs the error
WrSendFail ==
    /\ \/ wr.pc = "send" /\ wr.code # "child_lock"
       \/ wr.pc = "send2"
    /\ wr' = WrIdle
    /\ ev' = Ev("sendFailed", <<wr.dev, SendCode(wr.code)>>, wr.val)
    /\ UNCHANGED <<now, ticks, phase, antiRacePauseMs, objects, states, pending, recentWriteTs,
                   lastWriteAt, poll, softTimers, softRuns, calls>>
    /\ UNCHANGED <<apiVars, calc, gs>>

\* sendOne succeeds: setStateAsync(<deviceId>.<code>, { val, ack: true })
WrSendOk ==
    /\ wr.pc \in {"send", "send2"}
    /\ LET key == <<wr.dev, SendCode(wr.code)>>
       IN  /\ states' = [states EXCEPT ![key] = AckState(wr.local)]
           /\ ev' = Ev("localSet", key, wr.local)
    /\ wr' = [wr EXCEPT !.pc = IF wr.code = "manual_mode_fast" THEN "set2" ELSE "note"]
    /\ UNCHANGED <<now, ticks, phase, antiRacePauseMs, objects, pending, recentWriteTs,
                   lastWriteAt, poll, softTimers, softRuns, calls>>
    /\ UNCHANGED <<apiVars, calc, gs>>

\* manual_mode_fast: the second setStateAsync, of <deviceId>.manual_mode_fast
WrSetSecond ==
    /\ wr.pc = "set2"
    /\ LET key == <<wr.dev, "manual_mode_fast">>
       IN  /\ states' = [states EXCEPT ![key] = AckState(wr.local)]
           /\ ev' = Ev("localSet2", key, wr.local)
    /\ wr' = [wr EXCEPT !.pc = "note"]
    /\ UNCHANGED <<now, ticks, phase, antiRacePauseMs, objects, pending, recentWriteTs,
                   lastWriteAt, poll, softTimers, softRuns, calls>>
    /\ UNCHANGED <<apiVars, calc, gs>>

\* mutant of NotedPending: an entry that is there already is kept
NotedPending_KeepFirst(old, localVal, t) ==
    IF old.has THEN old ELSE [has |-> TRUE, val |-> localVal, until |-> t + WRITE_HOLD_MS]

\* mutant of NotedPending: the hold lasts as long as the lag window
NotedPending_LagWindow(old, localVal, t) ==
    [has |-> TRUE, val |-> localVal, until |-> t + LAG_SUPPRESS_MS]

\* this._pending.set(key, { val: localVal, until: now + WRITE_HOLD_MS })
NotedPending(old, localVal, t) ==
    [has |-> TRUE, val |-> localVal, until |-> t + WRITE_HOLD_MS]

\* _noteWrite(deviceId, code, localVal) and _softRefreshSoon(deviceId, code)
WrNoteWrite ==
    /\ wr.pc = "note"
    /\ LET code == SendCode(wr.code)
           key == <<wr.dev, code>>
       IN  /\ pending' = [pending EXCEPT ![key] = NotedPending(pending[key], wr.local, now)]
           /\ recentWriteTs' = [recentWriteTs EXCEPT ![key] = now]
           /\ lastWriteAt' = now
           /\ softTimers' = softTimers \cup
                  {[dev |-> wr.dev, codes |-> {code, "temp_current"},
                    due |-> now + SOFT_REFRESH_MS]}
           /\ ev' = Ev("noteWrite", key, wr.local)
    /\ wr' = WrIdle
    /\ UNCHANGED <<now, ticks, phase, antiRacePauseMs, objects, states, poll, softRuns, calls>>
    /\ UNCHANGED <<apiVars, calc, gs>>

(* ---------------------------- soft refresh ----------------------------- *)
\* the timer of _softRefreshSoon fires: _softRefreshOne calls getDeviceStatus
SoftRefreshFire(t) ==
    /\ t \in softTimers
    /\ now >= t.due
    /\ softTimers' = softTimers \ {t}
    /\ softRuns' = softRuns \cup {t}
    /\ ev' = Ev("softFetch", <<t.dev, "">>, Undefined)
    /\ UNCHANGED <<now, ticks, phase, antiRacePauseMs, objects, states, pending, recentWriteTs,
                   lastWriteAt, poll, wr, calls>>
    /\ UNCHANGED <<apiVars, calc, gs>>

\* getDeviceStatus fails, or it returns and the next statement reads the
\* undeclared name devId: either way the catch of _softRefreshOne logs the error
SoftRefreshEnd(t) ==
    /\ t \in softRuns
    /\ softRuns' = softRuns \ {t}
    /\ ev' = Ev("softFailed", <<t.dev, "">>, Undefined)
    /\ UNCHANGED <<now, ticks, phase, antiRacePauseMs, objects, states, pending, recentWriteTs,
                   lastWriteAt, poll, wr, softTimers, calls>>
    /\ UNCHANGED <<apiVars, calc, gs>>

\* the two ends of _softRefreshOne told apart. getDeviceStatus fails: the
\* catch logs the error
SoftRefreshFetchFail(t) ==
    /\ t \in softRuns
    /\ softRuns' = softRuns \ {t}
    /\ ev' = Ev("softFetchFailed", <<t.dev, "">>, Undefined)
    /\ UNCHANGED <<now, ticks, phase, antiRacePauseMs, objects, states, pending, recentWriteTs,
                   lastWriteAt, poll, wr, softTimers, calls>>
    /\ UNCHANGED <<apiVars, calc, gs>>

\* mutant of SoftRefreshReturn: the loop runs and drops the hold of the
\* written code
SoftRefreshReturn_DropsHold(t, statusArray) ==
    /\ t \in softRuns
    /\ softRuns' = softRuns \ {t}
    /\ pending' = [k \in Keys |->
                      IF k[1] = t.dev /\ k[2] \in t.codes THEN NoPending ELSE pending[k]]
    /\ ev' = Ev("softReturned", <<t.dev, "">>, statusArray)
    /\ UNCHANGED <<now, ticks, phase, antiRacePauseMs, objects, states, recentWriteTs,
                   lastWriteAt, poll, wr, softTimers, calls>>
    /\ UNCHANGED <<apiVars, calc, gs>>

\* mutant of SoftRefreshReturn: the loop runs and stores every fetched pair
SoftRefreshReturn_AllCodes(t, statusArray) ==
    /\ t \in softRuns
    /\ softRuns' = softRuns \ {t}
    /\ states' = [k \in Keys |->
                     IF k[1] = t.dev /\ \E i \in DOMAIN statusArray : statusArray[i].code = k[2]
                     THEN LET i == CHOOSE i \in DOMAIN statusArray : statusArray[i].code = k[2]
                          IN  AckState(ScaleValue(k[2], statusArray[i].value))
                     ELSE states[k]]
    /\ ev' = Ev("softReturned", <<t.dev, "">>, statusArray)
    /\ UNCHANGED <<now, ticks, phase, antiRacePauseMs, objects, pending, recentWriteTs,
                   lastWriteAt, poll, wr, softTimers, calls>>
    /\ UNCHANGED <<apiVars, calc, gs>>

\* getDeviceStatus returns and statusArray is taken from its result; the next
\* statement, const devPath = `${devId}`, reads a name that is declared nowhere
\* in _softRefreshOne: the ReferenceError ends the try block before the loop
\* over statusArray, and the catch logs it
SoftRefreshReturn(t, statusArray) ==
    /\ t \in softRuns
    /\ softRuns' = softRuns \ {t}
    /\ ev' = Ev("softReturned", <<t.dev, "">>, statusArray)
    /\ UNCHANGED <<now, ticks, phase, antiRacePauseMs, objects, states, pending, recentWriteTs,
                   lastWriteAt, poll, wr, softTimers, calls>>
    /\ UNCHANGED <<apiVars, calc, gs>>

(* ------------------------------ DanfossAPI ----------------------------- *)
\* data.expires_in of the token responses: absent, or 65 s
ExpiresIn == {Undefined, Num(65 * Scale)}

\* the HTTP status of a response of the target endpoint (0: no response)
Statuses == {200, 401, 500, 0}

\* new DanfossAPI(opts, log)
NewDanfossAPI(tokenUrl) ==
    /\ ~api.made
    /\ api' = [NoApi EXCEPT !.made = TRUE, !.tokenUrl = tokenUrl]
    /\ UNCHANGED <<now, rq>>
    /\ UNCHANGED <<adapterVars, calc, gs>>

\* mutant of TokenCached: the token is used up to its expiry
TokenCached_NoMargin(a, t) == a.token # 0 /\ (t \div 1000) < a.tokenExpiry

\* ensureToken returns the cached token: this._token && now < this._tokenExpiry - 60
TokenCached(a, t) == a.token # 0 /\ (t \div 1000) < a.tokenExpiry - TOKEN_MARGIN_S

\* ensureToken() up to its await, called by a _request call r: the cached token
\* and the HTTP request with it, or the error of a missing tokenUrl, or the
\* token request
EnsureToken(a, t, r) ==
    IF TokenCached(a, t)
    THEN [r EXCEPT !.pc = "http", !.bearer = a.token, !.http = @ + 1]
    ELSE IF ~a.tokenUrl
    THEN [r EXCEPT !.pc = "idle", !.out = "error", !.err = "tokenUrl not configured"]
    ELSE [r EXCEPT !.pc = "token", !.posts = @ + 1]

\* _defaultHeaders()
DefaultHeaders == {"Accept", "Content-Type", "X-Client"}

\* options.headers of the callers: sendCommand passes a Content-Type, the
\* others pass no headers
SuppliesHeaders(c) == c = "sendCommand"
CallerHeaders(c) == IF SuppliesHeaders(c) THEN {"Content-Type"} ELSE {}

\* the headers of { method, url, headers, ...options }: headers is built from
\* the bearer token, the defaults and options.headers, and the spread of
\* options that follows it puts options.headers in its place when the caller
\* has supplied any
ConfigHeaders(c) ==
    LET headers == {"Authorization"} \cup DefaultHeaders \cup CallerHeaders(c)
    IN  IF SuppliesHeaders(c) THEN CallerHeaders(c) ELSE headers

\* _request(method, path, options) is called: ensureToken
RequestCall(c) ==
    /\ api.made
    /\ rq[c].pc = "idle"
    /\ api.requests < MaxRequests
    /\ api' = [api EXCEPT !.requests = @ + 1]
    /\ rq' = [rq EXCEPT ![c] = EnsureToken(api, now, [RqIdle EXCEPT !.attempt = 1,
                                                                   !.hdrs = ConfigHeaders(c)])]
    /\ UNCHANGED now

Request(c) ==
    /\ RequestCall(c)
    /\ UNCHANGED <<adapterVars, calc, gs>>

\* Number(data.expires_in || 1800)
ExpiresInOf(e) ==
    IF Truthy(e) THEN ToNumber(e).n \div Scale ELSE DEFAULT_EXPIRES_IN

\* mutant of TokenReturn: a response that finds a token cached by another
\* call keeps that token and stores its own expiry
TokenReturn_KeepsCached(c, e) ==
    /\ rq[c].pc = "token"
    /\ LET token == IF api.token # 0 THEN api.token ELSE api.issued + 1
       IN  /\ api' = [api EXCEPT !.token = token, !.issued = @ + 1,
                                 !.expiresIn = e,
                                 !.tokenExpiry = (now \div 1000) + ExpiresInOf(e)]
           /\ rq' = [rq EXCEPT ![c] = [@ EXCEPT !.pc = "http", !.bearer = token,
                                                !.http = @ + 1]]
    /\ UNCHANGED now
    /\ UNCHANGED <<adapterVars, calc, gs>>

\* the token request returns: the token is cached and the HTTP request goes
\* out. The assignments of ensureToken and the continuation of _request after
\* its await run in one turn of the event loop, the turn that delivers the
\* token response; the response of another call is delivered in another turn.
TokenReturn(c, e) ==
    /\ rq[c].pc = "token"
    /\ api' = [api EXCEPT !.token = api.issued + 1, !.issued = @ + 1,
                          !.expiresIn = e,
                          !.tokenExpiry = (now \div 1000) + ExpiresInOf(e)]
    /\ rq' = [rq EXCEPT ![c] = [@ EXCEPT !.pc = "http", !.bearer = api.issued + 1,
                                         !.http = @ + 1]]
    /\ UNCHANGED now
    /\ UNCHANGED <<adapterVars, calc, gs>>

\* mutant of TokenFail: the failure clears the cache
TokenFail_ClearsCache(c) ==
    /\ rq[c].pc = "token"
    /\ rq' = [rq EXCEPT ![c] = [@ EXCEPT !.pc = "idle", !.out = "error",
                                         !.err = "Token request failed"]]
    /\ api' = [api EXCEPT !.token = 0, !.tokenExpiry = 0]
    /\ UNCHANGED now
    /\ UNCHANGED <<adapterVars, calc, gs>>

\* the token request fails: "Token request failed" propagates to the caller
TokenFail(c) ==
    /\ rq[c].pc = "token"
    /\ rq' = [rq EXCEPT ![c] = [@ EXCEPT !.pc = "idle", !.out = "error",
                                         !.err = "Token request failed"]]
    /\ UNCHANGED <<now, api>>
    /\ UNCHANGED <<adapterVars, calc, gs>>

\* mutant of Retries: a 401 is retried whatever the attempt
Retries_EveryAttempt(status, attempt) == status = 401

\* the catch of _request retries: the response is a 401, and it is the first
\* attempt (the retry is outside the try block)
Retries(status, attempt) == status = 401 /\ attempt = 1

\* the status as the error of the call
ErrOf(status) ==
    CASE status = 401 -> "401"
      [] status = 400 -> "400"
      [] status = 500 -> "500"
      [] OTHER -> "network"

\* the HTTP request returns: the data, or on a 401 of the first attempt the
\* token is dropped and ensureToken runs again, or the error propagates
HttpReturn(c, status) ==
    /\ rq[c].pc = "http"
    /\ LET r == IF rq[c].attempt = 1 THEN [rq[c] EXCEPT !.s1 = status]
                ELSE [rq[c] EXCEPT !.s2 = status]
           dropped == [api EXCEPT !.token = 0]
       IN  IF status = 200
           THEN /\ rq' = [rq EXCEPT ![c] = [r EXCEPT !.pc = "idle", !.out = "ok"]]
                /\ UNCHANGED api
           ELSE IF Retries(status, rq[c].attempt)
           THEN /\ api' = dropped
                /\ rq' = [rq EXCEPT ![c] =
                              EnsureToken(dropped, now, [r EXCEPT !.attempt = @ + 1])]
           ELSE /\ rq' = [rq EXCEPT ![c] = [r EXCEPT !.pc = "idle", !.out = "error",
                                                    !.err = ErrOf(status)]]
                /\ UNCHANGED api
    /\ UNCHANGED now
    /\ UNCHANGED <<adapterVars, calc, gs>>

(* ------------------------------- sendOne ------------------------------- *)
\* a sendOne call: the command (code, a), its position, the number of HTTP
\* requests of the sendCommand calls that have returned, the error its catch
\* has caught (b), and the result
NoSend == [op |-> "sendOne", code |-> "", a |-> Undefined, b |-> Undefined,
           out |-> Undefined, done |-> FALSE, stage |-> "idle", sent |-> 0]

\* the commands sendOne is called with, and the statuses the endpoint answers
SendCommands ==
    {[code |-> "temp_set", value |-> Num(210 * Scale)],
     [code |-> "child_lock", value |-> Num(Scale)]}
SendStatuses == {200, 400, 401, 500}

\* sendOne(deviceId, codeRaw, value) up to the await of api.sendCommand
SendOne ==
    /\ calc.op = "sendOne"
    /\ calc.stage = "idle"
    /\ ~calc.done
    /\ RequestCall("sendCommand")
    /\ calc' = [calc EXCEPT !.stage = "first", !.code = normalizeCode(Str(calc.code))]
    /\ UNCHANGED <<adapterVars, gs>>

\* retryable = status === 401 || headerMissing, where headerMissing is a 400
\* whose title mentions a header
Retryable(err, header) == err = "401" \/ (err = "400" /\ header)

\* api.sendCommand returns or throws. In the catch of the first call a
\* retryable error leads to ensureToken and a second sendCommand (the
\* ensureToken of _request then finds what the one of sendOne left); every
\* other error, and every error of the second call, is thrown.
SendOneReturn(header) ==
    /\ calc.op = "sendOne"
    /\ calc.stage \in {"first", "retry"}
    /\ rq["sendCommand"].pc = "idle"
    /\ rq["sendCommand"].out # "none"
    /\ LET r == rq["sendCommand"]
           sent == calc.sent + r.http
       IN  IF r.out = "ok"
           THEN /\ calc' = [calc EXCEPT !.stage = "idle", !.sent = sent,
                                        !.out = Str("ok"), !.done = TRUE]
                /\ UNCHANGED <<now, apiVars>>
           ELSE IF calc.stage = "first" /\ Retryable(r.err, header)
           THEN /\ RequestCall("sendCommand")
                /\ calc' = [calc EXCEPT !.stage = "retry", !.sent = sent, !.b = Str(r.err)]
           ELSE /\ calc' = [calc EXCEPT !.stage = "idle", !.sent = sent,
                                        !.out = Str(r.err), !.done = TRUE]
                /\ UNCHANGED <<now, apiVars>>
    /\ UNCHANGED <<adapterVars, gs>>

(* --------------------------- specification ----------------------------- *)
\* no call of the adapter is in progress
\* updateDevices scales the raw value of a pair
IngestRaw ==
    /\ calc.op = "raw"
    /\ calc' = [calc EXCEPT !.op = "ingested", !.out = ScaleValue(calc.code, calc.a)]
    /\ UNCHANGED <<now, adapterVars, apiVars, gs>>

\* prepareTempValue10 converts the ingested value for submission
ConvertBack ==
    /\ calc.op = "ingested"
    /\ ~calc.done
    /\ calc' = [calc EXCEPT !.b = PrepareTempValue10(calc.out, states[<<"rt1", "lower_temp">>],
                                                    states[<<"rt1", "upper_temp">>]),
                            !.done = TRUE]
    /\ UNCHANGED <<now, adapterVars, apiVars, gs>>

PollQuiet == poll.pc = "idle"
WriteQuiet == wr.pc = "idle"
SoftQuiet == softRuns = {}

\* Every call (poll cycle, write handler, soft refresh) runs to its end before
\* the next one starts; the inputs are the wide sets.
Next ==
    \/ Tick
    \/ \E cfg \in Configs : OnReady(cfg)
    \/ OnReadyTokenFail
    \/ OnReadyTokenOk
    \/ OnReadyResume
    \/ WriteQuiet /\ SoftQuiet /\ PollTimer
    \/ PollGetDevicesFail
    \/ \E devices \in Snapshots \cup {<<>>} : PollGetDevicesReturn(devices)
    \/ PollHoldCheck
    \/ PollLagResume
    \/ PollCurResume
    \/ /\ PollQuiet
       /\ SoftQuiet
       /\ \E d \in WriteDevices, e \in Events : OnStateChange(d, e.code, e.state)
    \/ WrLowerResume
    \/ WrUpperResume
    \/ WrSendFail
    \/ WrSendOk
    \/ WrSetSecond
    \/ WrNoteWrite
    \/ PollQuiet /\ WriteQuiet /\ \E t \in softTimers : SoftRefreshFire(t)
    \/ \E t \in softRuns : SoftRefreshEnd(t)

Spec == Init /\ [][Next]_vars

\* The calls interleave at their awaits; the inputs are the narrow sets.
NextRace ==
    \/ Tick
    \/ \E cfg \in RaceConfigs : OnReady(cfg)
    \/ OnReadyTokenFail
    \/ OnReadyTokenOk
    \/ OnReadyResume
    \/ PollTimer
    \/ PollGetDevicesFail
    \/ \E devices \in RaceSnapshots : PollGetDevicesReturn(devices)
    \/ PollHoldCheck
    \/ PollLagResume
    \/ PollCurResume
    \/ \E d \in WriteDevices, e \in RaceEvents : OnStateChange(d, e.code, e.state)
    \/ WrLowerResume
    \/ WrUpperResume
    \/ WrSendFail
    \/ WrSendOk
    \/ WrNoteWrite
    \/ \E t \in softTimers : SoftRefreshFire(t)
    \/ \E t \in softRuns : SoftRefreshEnd(t)

SpecRace == Init /\ [][NextRace]_vars

\* The write handler alone, one call at a time, for the codes that are not
\* temperatures; the first poll cycle of onReady finds no devices or fails.
NextWrites ==
    \/ Tick
    \/ OnReady(Config(Undefined, TRUE))
    \/ OnReadyTokenFail
    \/ OnReadyTokenOk
    \/ OnReadyResume
    \/ PollGetDevicesFail
    \/ PollGetDevicesReturn(<<>>)
    \/ /\ calls < MaxWrites
       /\ \E d \in WriteDevices, e \in WriteEvents : OnStateChange(d, e.code, e.state)
    \/ WrLowerResume
    \/ WrUpperResume
    \/ WrChildLockFallback
    \/ WrSetSecond
    \/ WrSendFail
    \/ WrSendOk
    \/ WrNoteWrite

SpecWrites == Init /\ [][NextWrites]_vars

\* The write handler with the events it has to drop, and one write that is
\* carried out; the first poll cycle of onReady finds no devices or fails.
DropEvents == DroppedEvents \cup {Event("child_lock", EventState(Str("true"), FALSE))}

NextDropped ==
    \/ Tick
    \/ \E cfg \in Configs : OnReady(cfg)
    \/ OnReadyTokenFail
    \/ OnReadyTokenOk
    \/ OnReadyResume
    \/ PollGetDevicesFail
    \/ PollGetDevicesReturn(<<>>)
    \/ SoftQuiet /\ \E d \in WriteDevices, e \in DropEvents : OnStateChange(d, e.code, e.state)
    \/ WrChildLockFallback
    \/ WrSendFail
    \/ WrSendOk
    \/ WrNoteWrite
    \/ WriteQuiet /\ \E t \in softTimers : SoftRefreshFire(t)
    \/ \E t \in softRuns : SoftRefreshEnd(t)

SpecDropped == Init /\ [][NextDropped]_vars

\* time passes by one of the amounts of GateSteps, once the timer is set
GateTick(d) ==
    /\ ticks < MaxTicks
    /\ phase = "running"
    /\ calc.done
    /\ poll.pc \in {"idle", "getDevices"}
    /\ wr.pc \in {"idle", "send", "send2"}
    /\ now' = now + d
    /\ ticks' = ticks + 1
    /\ ev' = Ev("tick", NoKey, Undefined)
    /\ UNCHANGED <<phase, antiRacePauseMs, objects, states, pending, recentWriteTs, lastWriteAt,
                   poll, wr, softTimers, softRuns, calls>>
    /\ UNCHANGED <<apiVars, calc, gs>>

\* setInterval(() => this.updateDevices(), intervalSec * 1000): a callback
\* runs no earlier than one interval after the start of the cycle before it
PollTimerDue ==
    /\ calc.op = "interval"
    /\ calc.done
    /\ now - poll.startedAt >= calc.out.n

\* The adapter with its poll timer running at the configured interval, one
\* call at a time, and writes of temp_set. A poll that is not skipped finds
\* the hold of the write in force, so it never gets to the lag check; the
\* soft refresh, which changes nothing the gate reads, is left out.
InitGate ==
    /\ InitAdapter
    /\ calc \in {[NoCalc EXCEPT !.op = "interval", !.a = p] : p \in GateIntervals}
    /\ gs = GsIdle

NextGate ==
    \/ \E d \in GateSteps : GateTick(d)
    \/ OnReady(Config(Undefined, TRUE))
    \/ OnReadyTokenFail
    \/ OnReadyTokenOk
    \/ OnReadyResume
    \/ phase = "running" /\ SetPollInterval
    \/ WriteQuiet /\ PollTimerDue /\ PollTimer
    \/ PollGetDevicesFail
    \/ \E devices \in GateSnapshots : PollGetDevicesReturn(devices)
    \/ PollHoldCheck
    \/ PollCurResume
    \/ /\ PollQuiet
       /\ \E d \in WriteDevices, e \in GateEvents : OnStateChange(d, e.code, e.state)
    \/ WrLowerResume
    \/ WrUpperResume
    \/ WrSendFail
    \/ WrSendOk
    \/ WrNoteWrite

SpecGate == InitGate /\ [][NextGate]_vars

\* device lists in which the child lock, which has a type hint, and the
\* window state, which has none, come as values of different types
MetaSnapshots ==
    {<<Dev("rt1", <<Pair("temp_set", Num(185000)), Pair("child_lock", Bool(TRUE)),
                    Pair("window_state", Num(0))>>)>>,
     <<Dev("rt1", <<Pair("temp_set", Num(210200)), Pair("child_lock", Str("false")),
                    Pair("window_state", Str("open"))>>)>>}

\* Poll cycles over these lists and writes of the setpoint, one call at a time.
NextMeta ==
    \/ Tick
    \/ OnReady(Config(Undefined, TRUE))
    \/ OnReadyTokenFail
    \/ OnReadyTokenOk
    \/ OnReadyResume
    \/ WriteQuiet /\ PollTimer
    \/ PollGetDevicesFail
    \/ \E devices \in MetaSnapshots : PollGetDevicesReturn(devices)
    \/ PollHoldCheck
    \/ PollLagResume
    \/ PollCurResume
    \/ /\ PollQuiet
       /\ calls < MaxWrites
       /\ \E d \in WriteDevices, e \in GateEvents : OnStateChange(d, e.code, e.state)
    \/ WrLowerResume
    \/ WrUpperResume
    \/ WrSendFail
    \/ WrSendOk
    \/ WrNoteWrite

SpecMeta == Init /\ [][NextMeta]_vars

\* Two write handlers of the setpoint in progress at once. The handler the
\* event loop is running is wr, the other one waits at its await in
\* calc.other; accepted lists the commands in the order in which the cloud
\* accepted them.
OverlapEvents ==
    {Event("temp_set", EventState(v, FALSE)) : v \in {Num(21050), Num(30000)}}

NoOverlap == [op |-> "overlap", other |-> WrIdle, accepted |-> <<>>]

\* the command of the running handler waits for the answer of the cloud
AwaitsAnswer == wr.pc = "send" /\ calc.op = "overlap"

\* the cloud has accepted the command of the running handler
Accepted == \E i \in 1..Len(calc.accepted) : calc.accepted[i] = wr.local

\* the cloud accepts the command; its answer is on the way
CloudAccepts ==
    /\ AwaitsAnswer
    /\ ~Accepted
    /\ calc' = [calc EXCEPT !.accepted = Append(@, wr.local)]
    /\ UNCHANGED <<now, adapterVars, apiVars, gs>>

\* the event loop turns to the other handler: the running one stays at its
\* await
TurnToOther ==
    /\ calc.op = "overlap"
    /\ wr # calc.other
    /\ wr' = calc.other
    /\ calc' = [calc EXCEPT !.other = wr]
    /\ ev' = Ev("turn", NoKey, Undefined)
    /\ UNCHANGED <<now, ticks, phase, antiRacePauseMs, objects, states, pending, recentWriteTs,
                   lastWriteAt, poll, softTimers, softRuns, calls>>
    /\ UNCHANGED <<apiVars, gs>>

InitOverlap == InitAdapter /\ calc = NoOverlap /\ gs = GsIdle

\* A state-change event starts a handler whenever the event loop is free, also
\* while another handler waits; the answer of the cloud to an accepted command
\* arrives, and a command that was not accepted fails.
NextOverlap ==
    \/ Tick
    \/ OnReady(Config(Undefined, TRUE))
    \/ OnReadyTokenFail
    \/ OnReadyTokenOk
    \/ OnReadyResume
    \/ PollGetDevicesFail
    \/ PollGetDevicesReturn(<<>>)
    \/ /\ calls < MaxWrites
       /\ \E d \in WriteDevices, e \in OverlapEvents :
             /\ calc.other.val # e.state.val
             /\ \A i \in 1..Len(calc.accepted) : calc.accepted[i] # e.state.val
             /\ OnStateChange(d, e.code, e.state)
    \/ WrLowerResume
    \/ WrUpperResume
    \/ CloudAccepts
    \/ ~Accepted /\ WrSendFail
    \/ Accepted /\ WrSendOk
    \/ WrNoteWrite
    \/ TurnToOther

SpecOverlap == InitOverlap /\ [][NextOverlap]_vars

\* The poll cycles alone, over an account with two devices, where an adapter
\* call of the loop may fail; without local writes the lag check never applies.
NextDevices ==
    \/ Tick
    \/ \E cfg \in Configs : OnReady(cfg)
    \/ OnReadyTokenFail
    \/ OnReadyTokenOk
    \/ OnReadyResume
    \/ PollTimer
    \/ PollGetDevicesFail
    \/ \E devices \in DeviceLists : PollGetDevicesReturn(devices)
    \/ PollHoldCheck
    \/ PollCurResume
    \/ PollLoopFail

SpecDevices == Init /\ [][NextDevices]_vars

\* The computation of the poll interval for every configured value.
InitInterval ==
    /\ InitAdapter
    /\ calc \in {[NoCalc EXCEPT !.op = "interval", !.a = p] : p \in PollingIntervals}
    /\ gs = GsIdle

NextInterval == SetPollInterval

SpecInterval == InitInterval /\ [][NextInterval]_vars

\* isSameVal for every code and pair of values.
InitSameVal ==
    /\ InitAdapter
    /\ calc \in {[NoCalc EXCEPT !.op = "isSameVal", !.code = c, !.a = a, !.b = b] :
                    c \in SameValCodes, a \in SameVals, b \in SameVals}
    /\ gs = GsIdle

NextSameVal == CallIsSameVal

SpecSameVal == InitSameVal /\ [][NextSameVal]_vars

\* normalizeCode and normalizeMode on spellings of codes and modes and on
\* values that are no strings, and once more on their own result.
NormalizeInputs ==
    {Undefined, Null, Str(""), Str("  "), Num(0), Num(Scale), Bool(FALSE), Bool(TRUE)}
    \cup {Str(x) : x \in
            {"pause", "Pause", "PAUSE", " pause ", "pause_settings", "Pause_Settings",
             "PAUSE_SETTINGS\n", "pause_setting", "setpoint_change_source",
             "Setpoint_Change_Source", "SetpointChangeSource", "setpointchangesource",
             "SETPOINTCHANGESOURCE", "setpoint_change", "\tSetpoint_Change",
             "temp_set", " temp_set ", "Temp_Set", "pause setting",
             "holiday_sat", "Holiday_Sat", "HOLIDAY_SAT ", "manual", "MANUAL",
             "leaving_home", "Leaving_Home", "at_home", " At_Home", "holiday",
             "Holiday", "auto", "AUTO", "eco", " Eco "}}

Normalizers == {"normalizeCode", "normalizeMode"}

Normalize(op, x) == IF op = "normalizeCode" THEN normalizeCode(x) ELSE normalizeMode(x)

\* normalizeCode(x) or normalizeMode(x) is called
CallNormalize ==
    /\ calc.op \in Normalizers
    /\ ~calc.done
    /\ calc' = [calc EXCEPT !.out = Str(Normalize(calc.op, calc.a)), !.done = TRUE]
    /\ UNCHANGED <<now, adapterVars, apiVars, gs>>

\* the same function is called on the result
CallNormalizeAgain ==
    /\ calc.op \in Normalizers
    /\ calc.done
    /\ calc.b = Undefined
    /\ calc' = [calc EXCEPT !.b = Str(Normalize(calc.op, calc.out))]
    /\ UNCHANGED <<now, adapterVars, apiVars, gs>>

InitNormalize ==
    /\ InitAdapter
    /\ calc \in {[NoCalc EXCEPT !.op = op, !.a = x] : op \in Normalizers, x \in NormalizeInputs}
    /\ gs = GsIdle

NextNormalize == CallNormalize \/ CallNormalizeAgain

SpecNormalize == InitNormalize /\ [][NextNormalize]_vars

\* A raw setpoint is ingested by the poll and converted back for submission.
InitScale ==
    /\ \E st \in {NoLimits, Limits} : InitStored(st)
    /\ calc \in {[NoCalc EXCEPT !.op = "raw", !.code = c, !.a = r] :
                    c \in TempWriteCodes, r \in RawValues}
    /\ gs = GsIdle

NextScale == IngestRaw \/ ConvertBack

SpecScale == InitScale /\ [][NextScale]_vars

(* --------------------------- getDeviceStatus --------------------------- *)
\* mutant of NextSource: the device endpoint is left out
NextSource_SkipDevice(src) == "list"

\* the source the catch block of a failed source turns to
NextSource(src) ==
    CASE src = "status" -> "device"
      [] src = "device" -> "list"

Attempt(src) == [src |-> src, res |-> "pending"]
LastTried == gs.tried[Len(gs.tried)]
\* the requests so far, the last one with its result
TriedWith(res) == [gs.tried EXCEPT ![Len(gs.tried)] = [@ EXCEPT !.res = res]]

\* getDeviceStatus(deviceId) up to its first await: GET /devices/{id}/status
GetDeviceStatus(deviceId) ==
    /\ gs.pc \in {"idle", "done"}
    /\ gs.n < MaxCalls
    /\ gs' = [GsIdle EXCEPT !.pc = "request", !.n = gs.n + 1, !.id = deviceId,
                            !.tried = <<Attempt("status")>>]
    /\ UNCHANGED <<now, adapterVars, apiVars, calc>>

\* what getDeviceStatus returns for the body of a device endpoint
BodyResult(src, data) ==
    IF src = "status" /\ data.resultIsArray
    THEN [from |-> "status.result", status |-> data.content]
    ELSE [from |-> src, status |-> data.content]

\* the request of the status or of the device endpoint returns data
GsRequestReturns(data) ==
    /\ gs.pc = "request"
    /\ LastTried.src \in {"status", "device"}
    /\ gs' = [gs EXCEPT !.pc = "done", !.tried = TriedWith("ok"), !.out = "ok",
                        !.val = BodyResult(LastTried.src, data)]
    /\ UNCHANGED <<now, adapterVars, apiVars, calc>>

\* it throws: the catch block issues the next request
GsRequestFails ==
    /\ gs.pc = "request"
    /\ LastTried.src \in {"status", "device"}
    /\ gs' = [gs EXCEPT !.tried = Append(TriedWith("fail"), Attempt(NextSource(LastTried.src)))]
    /\ UNCHANGED <<now, adapterVars, apiVars, calc>>

\* list.find(d => d.id === deviceId), then found?.status || {}
ListResult(list, deviceId) ==
    LET S == {i \in 1..Len(list) : list[i].id = deviceId}
    IN  IF S = {} THEN [from |-> "list.none", status |-> <<>>]
        ELSE [from |-> "list",
              status |-> list[CHOOSE i \in S : \A j \in S : i <= j].status]

\* getDevices() of the last resort returns
GsListReturns(list) ==
    /\ gs.pc = "request"
    /\ LastTried.src = "list"
    /\ gs' = [gs EXCEPT !.pc = "done", !.tried = TriedWith("ok"), !.list = list,
                        !.out = "ok", !.val = ListResult(list, gs.id)]
    /\ UNCHANGED <<now, adapterVars, apiVars, calc>>

\* getDevices() throws: there is no catch left, the caller gets the error
GsListFails ==
    /\ gs.pc = "request"
    /\ LastTried.src = "list"
    /\ gs' = [gs EXCEPT !.pc = "done", !.tried = TriedWith("fail"), !.out = "error"]
    /\ UNCHANGED <<now, adapterVars, apiVars, calc>>

\* getDeviceStatus alone, called a few times.
NextStatus ==
    \/ \E id \in StatusIds : GetDeviceStatus(id)
    \/ \E data \in Bodies : GsRequestReturns(data)
    \/ GsRequestFails
    \/ \E list \in DeviceLists \cup {<<>>} : GsListReturns(list)
    \/ GsListFails

SpecStatus == Init /\ [][NextStatus]_vars

\* The API client alone: the _request calls of two callers interleave at
\* their awaits while time passes.
NextApi ==
    \/ Tick
    \/ \E tokenUrl \in BOOLEAN : NewDanfossAPI(tokenUrl)
    \/ \E c \in Callers : Request(c)
    \/ \E c \in Callers, e \in ExpiresIn : TokenReturn(c, e)
    \/ \E c \in Callers : TokenFail(c)
    \/ \E c \in Callers, status \in Statuses : HttpReturn(c, status)

SpecApi == Init /\ [][NextApi]_vars

\* Writes and the soft refresh each of them schedules.
InitSoft == InitStored(Stored) /\ calc = NoCalc /\ gs = GsIdle

NextSoft ==
    \/ Tick
    \/ OnReady(Config(Undefined, TRUE))
    \/ OnReadyTokenFail
    \/ OnReadyTokenOk
    \/ OnReadyResume
    \/ PollGetDevicesFail
    \/ PollGetDevicesReturn(<<>>)
    \/ /\ calls < MaxWrites
       /\ SoftQuiet
       /\ \E d \in WriteDevices, e \in SoftEvents : OnStateChange(d, e.code, e.state)
    \/ WrLowerResume
    \/ WrUpperResume
    \/ WrSendFail
    \/ WrSendOk
    \/ WrNoteWrite
    \/ WriteQuiet /\ \E t \in softTimers : SoftRefreshFire(t)
    \/ \E t \in softRuns : SoftRefreshFetchFail(t)
    \/ \E t \in softRuns, statusArray \in SoftStatuses : SoftRefreshReturn(t, statusArray)

SpecSoft == InitSoft /\ [][NextSoft]_vars

\* One sendOne call on top of the API client.
InitSend ==
    /\ InitAdapter
    /\ calc \in {[NoSend EXCEPT !.code = c.code, !.a = c.value] : c \in SendCommands}
    /\ gs = GsIdle

NextSend ==
    \/ \E tokenUrl \in BOOLEAN : NewDanfossAPI(tokenUrl)
    \/ SendOne
    \/ \E e \in ExpiresIn : TokenReturn("sendCommand", e)
    \/ TokenFail("sendCommand")
    \/ \E status \in SendStatuses : HttpReturn("sendCommand", status)
    \/ \E header \in BOOLEAN : SendOneReturn(header)

SpecSend == InitSend /\ [][NextSend]_vars


(* ------------------------------- claims -------------------------------- *)
\* tolerance equality as the specification states it: numeric values of a
\* temperature-like code are equal within 0.05, everything else exactly
TolEq(code, a, b) ==
    IF a.t = "number" /\ b.t = "number" /\ code \in TempLike
    THEN a.n - b.n <= TEMP_EPS /\ b.n - a.n <= TEMP_EPS
    ELSE a.t # "nan" /\ a.t = b.t /\ a.n = b.n /\ a.s = b.s /\ a.b = b.b

\* a step of the poll cycle that starts at the pair the loop is at
PollPairStep == poll.pc = "code" /\ poll' # poll

\* the loop has left the pair it was at: the next pair, or the end of the cycle
PollMovedOn ==
    \/ poll'.pc = "idle"
    \/ poll'.pc = "code" /\ <<poll'.di, poll'.ci>> # <<poll.di, poll.ci>>

WrStoredKey == <<wr.dev, SendCode(wr.code)>>

\* a local write to key k is stored and protected: the handler has set the
\* local state and is about to register the write, or the write is registered,
\* not yet matched by a poll, and its hold has not expired
LocalWriteHeld(k) ==
    \/ wr.pc \in {"set2", "note"} /\ k = WrStoredKey
    \/ pending[k].has /\ now < pending[k].until

\* the value of that local write
LocalWriteVal(k) ==
    IF wr.pc \in {"set2", "note"} /\ k = WrStoredKey
    THEN wr.local ELSE pending[k].val

\* C2: for every interleaving of a poll cycle and a write handler at their
\* awaits, once the handler has submitted its command and set the local state,
\* no step of a poll cycle overwrites that state with a cloud value differing
\* from the written value beyond tolerance while the hold has not expired.
C2_NoClobber ==
    [][\A k \in Keys :
          (poll' # poll /\ states'[k] # states[k] /\ LocalWriteHeld(k))
             => TolEq(k[2], states'[k].val, LocalWriteVal(k))]_vars


\* C3: a poll cycle that starts less than the pause window (5 s by default)
\* after the last successful local write calls no API, writes no state and
\* syncs no metadata; a cycle that starts at or after the window goes on to
\* fetch the devices.
C3_AntiRaceGate ==
    [][ev'.kind \in {"gateSkip", "pollFetch"} =>
          IF now - lastWriteAt < antiRacePauseMs'
          THEN /\ ev'.kind = "gateSkip"
               /\ poll'.pc = "idle"
               /\ states' = states
               /\ objects' = objects
          ELSE /\ ev'.kind = "pollFetch"
               /\ poll'.pc = "getDevices"]_vars

\* a poll 4 s after a local write, with the default window, was skipped
C3_Witness ==
    /\ ev.kind = "gateSkip"
    /\ antiRacePauseMs = ANTI_RACE_PAUSE_MS
    /\ lastWriteAt > 0
    /\ now - lastWriteAt = 4000

\* the limits of a device as the claims read them: applied only if stored as a number
ClampReal(v, lower, upper) ==
    LET a == IF lower.exists /\ lower.val.t = "number" /\ v < lower.val.n
             THEN lower.val.n ELSE v
    IN  IF upper.exists /\ upper.val.t = "number" /\ a > upper.val.n
        THEN upper.val.n ELSE a

\* the nearest integer of a fixed-point number, halves upwards
RoundReal(x) == ((2 * x + Scale) \div (2 * Scale)) * Scale

\* the requested value of the running temperature write, clamped to the stored limits
WrClamped ==
    ClampReal(ToNumber(wr.val).n, states[<<wr.dev, "lower_temp">>],
              states[<<wr.dev, "upper_temp">>])

\* C4: after a successful temperature write whose requested value lies outside
\* the stored limits, the local state of the written code holds the clamped
\* value, acknowledged, and the pending write registered for the code holds the
\* same clamped value with expiry 60 s after the registration.
C4_ClampedLocalState ==
    [][(/\ wr.pc = "note"
        /\ wr'.pc = "idle"
        /\ wr.code \in TempWriteCodes
        /\ WrClamped # ToNumber(wr.val).n)
          => LET k == WrStoredKey
             IN  /\ states'[k] = AckState(Num(WrClamped))
                 /\ pending'[k] = [has |-> TRUE, val |-> Num(WrClamped),
                                   until |-> now + WRITE_HOLD_MS]]_vars

\* C5: the wire value a temperature write submits is round(10 * clamp(v, lower,
\* upper)) of the finite requested value v, each limit applied only if it is
\* stored as a number, the clamp before the scaling.
C5_WireValue ==
    (wr.pc = "send" /\ wr.code \in TempWriteCodes)
        => wr.value = Num(RoundReal(10 * WrClamped))

\* a request of 30 with upper_temp 28 was submitted as 280
C5_Witness ==
    /\ wr.pc = "send"
    /\ wr.code = "temp_set"
    /\ wr.val = Num(30000)
    /\ states[<<wr.dev, "upper_temp">>].val = Num(28000)
    /\ wr.value = Num(280000)

\* the stored value of key k equals v by tolerance equality
StoredEq(k, v) == states[k].exists /\ TolEq(k[2], states[k].val, v)

\* the pair the loop is at has an active hold that the polled value does not match
HeldNow ==
    /\ pending[PollKey].has
    /\ poll.startedAt < pending[PollKey].until
    /\ ~TolEq(PollCode, PollValue, pending[PollKey].val)

\* the lag window of key k is open for the running cycle
LagOpen(k) ==
    recentWriteTs[k] # 0 /\ poll.startedAt - recentWriteTs[k] < LAG_SUPPRESS_MS

\* the loop is at the pair after the current one, or the cycle has ended
PollAtNextPair ==
    LET pos == NextPos(poll.devices, poll.di, poll.ci + 1)
    IN  IF pos[1] > Len(poll.devices) THEN poll'.pc = "idle"
        ELSE poll'.pc = "code" /\ poll'.di = pos[1] /\ poll'.ci = pos[2]

\* C6: when a poll cycle processes a code with no active unmatched hold whose
\* recent-write timestamp is less than 15 s before the poll start, a cloud value
\* differing from the stored value by tolerance equality is not written; the
\* cycle goes on with the next code of the device.
C6_LagSuppression ==
    [][/\ (poll.pc = "code" /\ poll' # poll /\ ~HeldNow /\ LagOpen(PollKey))
            => poll'.pc = "lagGet" /\ states' = states
       /\ (poll.pc = "lagGet" /\ poll' # poll /\ ~StoredEq(<<PollDevId, poll.code>>, poll.value))
            => states' = states /\ PollAtNextPair /\ poll'.changed = poll.changed]_vars

\* a differing setpoint was suppressed and the loop is at temp_current
C6_Witness ==
    /\ ev.kind = "suppress"
    /\ ev.key = <<"rt1", "temp_set">>
    /\ ev.val = Num(18500)
    /\ states[ev.key].val = Num(21050)
    /\ poll.pc = "code"
    /\ PollCode = "temp_current"

\* C7: a code whose stored value is already the value the snapshot delivers
\* (the snapshot was processed before) and that is past the hold and lag checks
\* is classified as skipped: processing it again performs no state write.
C7_Idempotence ==
    [][(/\ poll.pc = "curGet"
        /\ poll' # poll
        /\ states[<<PollDevId, poll.code>>] = AckState(poll.value))
          => /\ poll'.skipped = poll.skipped + 1
             /\ poll'.changed = poll.changed]_vars

\* C8: a poll cycle that starts 60 s or more after the last successful local
\* write to a code is not held and not suppressed for that code, and leaves the
\* stored value equal to the polled value, whether or not the pending value was
\* ever matched.
C8_Convergence ==
    [][/\ (/\ poll.pc = "code"
           /\ poll' # poll
           /\ recentWriteTs[PollKey] # 0
           /\ poll.startedAt >= recentWriteTs[PollKey] + WRITE_HOLD_MS)
            => poll'.pc = "curGet" /\ poll'.held = poll.held
       /\ (poll.pc = "curGet" /\ poll' # poll)
            => LET k == <<PollDevId, poll.code>>
               IN  \/ states'[k] = AckState(poll.value)
                   \/ states'[k] = states[k] /\ StoredEq(k, poll.value)]_vars

\* 60 s after an unmatched write of 21.05 a poll has stored the cloud's 18.5
C8_Witness ==
    /\ ev.kind = "set"
    /\ ev.key = <<"rt1", "temp_set">>
    /\ ev.val = Num(18500)
    /\ pending[ev.key].val = Num(21050)
    /\ poll.startedAt >= recentWriteTs[ev.key] + WRITE_HOLD_MS
    /\ states[ev.key] = AckState(Num(18500))

\* C9: after the hold of a pending write has expired and a poll has processed
\* its code, the pending-write table holds no entry for that key.
C9_ExpiredEntryRemoved ==
    [][(poll.pc = "curGet" /\ poll' # poll)
          => LET k == <<PollDevId, poll.code>>
             IN  ~(pending'[k].has /\ poll.startedAt >= pending'[k].until)]_vars


\* a step of the _request call of caller c
RqStep(c) == rq'[c] # rq[c]

\* C10: when the first HTTP attempt of a _request call answers 401 the cached
\* token is dropped, one token is requested and, when it arrives, the request
\* is sent once more; a 401 or any other failure of the retry propagates to
\* the caller, as does a failure of the token request.  A call issues at most
\* two HTTP requests, and a failure of the first attempt other than 401 ends
\* the call with that error after one HTTP request.
C10_RetryOnce ==
    [][\A c \in Callers :
          RqStep(c) =>
            /\ rq'[c].http <= 2
            /\ (rq[c].pc = "http" /\ rq[c].attempt = 1 /\ rq'[c].s1 = 401)
                  => /\ api'.token = 0
                     /\ rq'[c].pc = "token"
                     /\ rq'[c].posts = rq[c].posts + 1
                     /\ rq'[c].http = 1
            /\ (rq[c].pc = "token" /\ rq[c].s1 = 401 /\ rq'[c].pc = "http")
                  => /\ rq'[c].http = 2
                     /\ rq'[c].bearer = api'.token
                     /\ rq'[c].bearer # rq[c].bearer
            /\ (rq[c].pc = "token" /\ rq[c].s1 = 401 /\ rq'[c].pc # "http")
                  => rq'[c].pc = "idle" /\ rq'[c].out = "error" /\ rq'[c].http = 1
            /\ (rq[c].pc = "http" /\ rq[c].attempt = 2)
                  => /\ rq'[c].pc = "idle"
                     /\ rq'[c].http = 2
                     /\ rq'[c].posts = rq[c].posts
                     /\ rq'[c].out = IF rq'[c].s2 = 200 THEN "ok" ELSE "error"
                     /\ rq'[c].s2 # 200 => rq'[c].err = ErrOf(rq'[c].s2)
            /\ (rq[c].pc = "http" /\ rq[c].attempt = 1 /\ rq'[c].s1 \notin {200, 401})
                  => /\ rq'[c].pc = "idle"
                     /\ rq'[c].http = 1
                     /\ rq'[c].out = "error"
                     /\ rq'[c].err = ErrOf(rq'[c].s1)
                     /\ api' = api]_vars

\* a call whose two attempts both answered 401 has ended with that error
C10_Witness ==
    \E c \in Callers :
        /\ rq[c].pc = "idle"
        /\ rq[c].s1 = 401
        /\ rq[c].s2 = 401
        /\ rq[c].http = 2
        /\ rq[c].out = "error"
        /\ rq[c].err = "401"


\* Date.now() in whole seconds
NowS == now \div 1000

\* C11: with a token URL configured (the adapter starts the client only then),
\* ensureToken uses the cached token, without a token request, exactly when a
\* token is cached and now < expiry - 60 s; otherwise it issues exactly one
\* token request, whose success stores the new token with expiry = now +
\* expires_in (1800 s when the response has none) and whose failure ends the
\* call without another token request.
C11_TokenLifecycle ==
    [][\A c \in Callers :
          /\ (api.tokenUrl /\ rq[c].pc = "idle" /\ RqStep(c))
                => IF api.token # 0 /\ NowS < api.tokenExpiry - 60
                   THEN /\ rq'[c].pc = "http"
                        /\ rq'[c].posts = 0
                        /\ rq'[c].bearer = api.token
                        /\ api'.token = api.token
                        /\ api'.tokenExpiry = api.tokenExpiry
                   ELSE /\ rq'[c].pc = "token"
                        /\ rq'[c].posts = 1
                        /\ rq'[c].http = 0
          /\ (rq[c].pc = "token" /\ RqStep(c))
                => \/ /\ rq'[c].pc = "http"
                      /\ rq'[c].posts = rq[c].posts
                      /\ api'.token # 0
                      /\ api'.token # api.token
                      /\ rq'[c].bearer = api'.token
                      /\ api'.tokenExpiry =
                            NowS + (IF api'.expiresIn = Undefined THEN 1800
                                    ELSE api'.expiresIn.n \div Scale)
                   \/ /\ rq'[c].pc = "idle"
                      /\ rq'[c].out = "error"
                      /\ rq'[c].posts = rq[c].posts
                      /\ api' = api]_vars

\* a call is using a token cached by an earlier call, 1 s after it was issued
\* with a lifetime of 65 s
C11_Witness ==
    \E c \in Callers :
        /\ rq[c].pc = "http"
        /\ rq[c].attempt = 1
        /\ rq[c].posts = 0
        /\ rq[c].bearer = api.token
        /\ api.token # 0
        /\ api.expiresIn = Num(65 * Scale)
        /\ NowS = api.tokenExpiry - 64

(* ------------------------- dropped state changes ------------------------ *)
\* the step is a call of onStateChange with an event that carries a state
EventStep == ev'.in.given /\ ev'.in.state.present

\* the code the handler derives from the event's id
EventCode == sanitizeId(normalizeCode(Str(ev'.in.code)))

\* the step submits nothing and leaves the states and the write bookkeeping alone
NoWriteEffect ==
    /\ wr' = wr
    /\ rq' = rq
    /\ states' = states
    /\ pending' = pending
    /\ recentWriteTs' = recentWriteTs
    /\ lastWriteAt' = lastWriteAt
    /\ softTimers' = softTimers
    /\ softRuns' = softRuns

\* C12: a state-change event with ack = true starts no command submission,
\* writes no local state and changes neither the pending-write table nor the
\* recent-write timestamps nor the last global write time.
C12_AckIgnored ==
    [][(EventStep /\ ev'.in.state.ack) => NoWriteEffect /\ wr'.pc = "idle"]_vars

C12_Witness ==
    /\ ev.in.given /\ ev.in.state.present /\ ev.in.state.ack
    /\ ev.in.code = "mode"
    /\ wr.pc = "idle"
    /\ lastWriteAt > 0

\* C13: a local write (ack = false) to a code outside the writable-code
\* registry starts no network call, writes no local state and changes no
\* write bookkeeping; the handler only warns.
C13_ReadOnlyIgnored ==
    [][(EventStep /\ ~ev'.in.state.ack /\ EventCode \notin WRITEABLE_CODES)
          => NoWriteEffect /\ wr'.pc = "idle" /\ ev'.kind = "readOnly"]_vars

C13_Witness ==
    /\ ev.in.given /\ ev.in.state.present /\ ~ev.in.state.ack
    /\ ev.in.code = "battery_percentage"
    /\ ev.kind = "readOnly"
    /\ wr.pc = "idle"
    /\ lastWriteAt > 0

\* C14: a local write of a value that is no finite number to temp_set,
\* manual_mode_fast or one of the four presets is rejected before any network
\* call: no command, no local state write, no bookkeeping change.
C14_NonFiniteRejected ==
    [][(/\ EventStep
        /\ ~ev'.in.state.ack
        /\ EventCode \in {"temp_set", "manual_mode_fast"} \cup PresetCodes
        /\ ToNumber(ev'.in.state.val).t = "nan")
          => NoWriteEffect /\ wr'.pc = "idle" /\ ev'.kind = "invalidTemp"]_vars

C14_Witness ==
    /\ ev.in.given /\ ev.in.state.present /\ ~ev.in.state.ack
    /\ ev.in.code = "pause"
    /\ ev.key[2] = "pause_setting"
    /\ ev.in.state.val = Str("warm")
    /\ ev.kind = "invalidTemp"
    /\ lastWriteAt > 0

(* ------------------------- failures inside a cycle ---------------------- *)
\* the loop is at a pair of a device that is not the last of the list, and
\* the step is the failure of one of its adapter calls
FailsBeforeLastDevice ==
    /\ poll.pc \in {"code", "lagGet", "curGet"}
    /\ poll.di < Len(poll.devices)
    /\ ev'.kind = "pollError"

\* C15: when processing one device of a poll cycle fails, the cycle goes on
\* with the next device of the same snapshot.
C15_DeviceIsolation ==
    [][FailsBeforeLastDevice
          => /\ poll'.pc = "code"
             /\ poll'.devices = poll.devices
             /\ poll'.di = poll.di + 1]_vars

(* ------------------------------ poll interval --------------------------- *)
\* C16: whatever config.pollingInterval is, the interval of the poll timer
\* lies in [30 s, 86400 s]; a missing or non-finite value yields 60 s.
C16_IntervalRange ==
    (calc.op = "interval" /\ calc.done)
        => /\ calc.out.t = "number"
           /\ calc.out.n >= 30 * Scale
           /\ calc.out.n <= 86400 * Scale
           /\ (calc.a \in {Undefined, Null} \/ ToNumber(calc.a).t = "nan")
                 => calc.out.n = 60 * Scale

C16_Witness ==
    /\ calc.op = "interval" /\ calc.done
    /\ calc.a = Num(-3 * Scale)
    /\ calc.out = Num(30 * Scale)

(* -------------------------- missing configuration ----------------------- *)
\* the step is onReady, and the configuration it finds lacks a required setting
OnReadyIncomplete ==
    /\ phase = "constructed"
    /\ phase' # "constructed"
    /\ \E f \in Required : ev'.in.config[f] \in {Undefined, Str("")}

\* the adapter does nothing: no token request, no poll cycle, no timer and no
\* subscription (so no timer callback and no state-change event), no state
Dormant ==
    /\ phase' = "unconfigured"
    /\ poll' = PollIdle
    /\ wr' = WrIdle
    /\ calls' = 0
    /\ softTimers' = {} /\ softRuns' = {}
    /\ \A k \in Keys : ~states'[k].exists
    /\ \A i \in ObjIds : ~objects'[i].exists

\* C17: if API key, API secret, token URL or API base URL is missing at
\* startup, the adapter makes no API client call, runs no poll cycle, starts
\* no poll timer and subscribes to nothing, then and ever after.
C17_MissingConfig ==
    [][/\ OnReadyIncomplete => Dormant
       /\ phase = "unconfigured" => Dormant]_vars

C17_Witness ==
    /\ phase = "unconfigured"
    /\ ev.in.config.apiKey = Str("key")
    /\ ev.in.config.apiBaseUrl = Str("")

(* ---------------------------- tolerance equality ------------------------ *)
\* the arguments of the call are finite numbers
BothFinite == calc.a.t = "number" /\ calc.b.t = "number"

\* a === b
ExactlyEqual == calc.a = calc.b /\ calc.a.t # "nan"

\* C18: for two numbers of a temperature-like code isSameVal is true exactly
\* when |a - b| <= 0.05 (0.05 apart: equal; 0.06 apart: not equal); for every
\* other code and for values that are no numbers it is exact equality; on
\* finite values the relation is reflexive and symmetric.
C18_ToleranceEquality ==
    (calc.op = "isSameVal" /\ calc.done)
        => /\ IF calc.code \in TempLike /\ BothFinite
              THEN calc.out.b <=> (calc.a.n - calc.b.n <= 50 /\ calc.b.n - calc.a.n <= 50)
              ELSE calc.out.b <=> ExactlyEqual
           /\ (BothFinite /\ calc.a = calc.b) => calc.out.b
           /\ BothFinite => (calc.out.b <=> isSameVal(calc.code, calc.b, calc.a))

(* --------------------------- scaling round trip ------------------------- *)
\* the ingested value lies within the stored limits, as far as there are any
WithinLimits ==
    /\ HasLimit(states[<<"rt1", "lower_temp">>])
          => calc.out.n >= states[<<"rt1", "lower_temp">>].val.n
    /\ HasLimit(states[<<"rt1", "upper_temp">>])
          => calc.out.n <= states[<<"rt1", "upper_temp">>].val.n

\* C19: an integer raw value r of a tenths-class code is ingested as r/10
\* (divided once), and converting that value back for submission gives r
\* again (217 -> 21.7 -> 217), for a value the stored limits admit.
C19_ScalingRoundTrip ==
    /\ calc.op = "ingested" => (calc.out.t = "number" /\ calc.out.n * 10 = calc.a.n)
    /\ (calc.op = "ingested" /\ calc.done /\ WithinLimits) => calc.b = calc.a

C19_Witness ==
    /\ calc.op = "ingested" /\ calc.done
    /\ calc.code = "temp_set"
    /\ calc.a = Num(217 * Scale)
    /\ calc.out = Num(21700)
    /\ calc.b = Num(217 * Scale)
    /\ HasLimit(states[<<"rt1", "upper_temp">>])

(* ------------------------- status fallback order ------------------------ *)
\* the three sources in the order the claim gives
SourceOrder == <<"status", "device", "list">>

\* the entry of the re-listed devices whose id is the requested one, if any
Matching == {i \in 1..Len(gs.list) : gs.list[i].id = gs.id}

\* C20: getDeviceStatus asks the status endpoint, the device endpoint and the
\* device list strictly in this order, each only after the one before has
\* failed; a success ends the call with the answer of that source (from the
\* list: the status of the device with the id, or an empty map), and a
\* failure of the re-listing reaches the caller.
C20_FallbackOrder ==
    /\ Len(gs.tried) <= 3
    /\ \A i \in 1..Len(gs.tried) : gs.tried[i].src = SourceOrder[i]
    /\ \A i \in 1..(Len(gs.tried) - 1) : gs.tried[i].res = "fail"
    /\ gs.pc = "request" => gs.tried[Len(gs.tried)].res = "pending"
    /\ gs.pc = "done"
          => LET last == gs.tried[Len(gs.tried)]
             IN  \/ /\ last.res = "ok"
                    /\ gs.out = "ok"
                    /\ last.src = "list"
                          => IF Matching = {} THEN gs.val.status = <<>>
                             ELSE \E i \in Matching : gs.val.status = gs.list[i].status
                 \/ /\ last.res = "fail"
                    /\ last.src = "list"
                    /\ gs.out = "error"

C20_Witness ==
    /\ gs.pc = "done"
    /\ gs.id = "rt2"
    /\ Len(gs.tried) = 3
    /\ gs.tried[3].res = "ok"
    /\ gs.val.status = Status(Num(215000), Num(210000))

(* ------------------------ one pending write per key --------------------- *)
\* the step registers a finished temperature write
NotesWrite == wr.pc = "note" /\ wr'.pc = "idle"

\* C21: there is one pending entry per (deviceId, code) at most: registering
\* a write puts its value and the expiry now + 60 s in the place of whatever
\* entry the key had, and leaves the entries of the other keys alone.
C21_OnePendingPerKey ==
    [][NotesWrite
          => LET key == <<wr.dev, IF wr.code = "manual_mode_fast" THEN "temp_set" ELSE wr.code>>
             IN  /\ pending'[key].has
                 /\ pending'[key].val = ToNumber(wr.val)
                 /\ pending'[key].until = now + 60000
                 /\ \A k \in Keys \ {key} : pending'[k] = pending[k]]_vars

\* two writes to rt1.temp_set have been registered at different times (the
\* soft-refresh timers of both are still set) and the entry is the second one
C21_Witness ==
    /\ ev.kind = "noteWrite"
    /\ \E t1, t2 \in softTimers :
          /\ t1.due < t2.due
          /\ "temp_set" \in t1.codes /\ "temp_set" \in t2.codes
          /\ pending[<<"rt1", "temp_set">>].until = t2.due - 1500 + 60000
          /\ pending[<<"rt1", "temp_set">>].until = now + 60000
    /\ pending[<<"rt1", "temp_set">>].val = Num(30000)

(* ----------------------- cycles skipped after a write ------------------- *)
\* the step is a timer callback that the anti-race gate ends at once
SkippedCycle ==
    /\ calls' = calls + 1
    /\ poll.pc = "idle" /\ poll'.pc = "idle"
    /\ poll'.startedAt = now
    /\ wr' = wr

\* C22: with the default pause of 5 s and a poll interval of 30 s or more, a
\* cycle the gate skips is the first timer callback since the last write was
\* registered: the callback before it started before that write, so one
\* write makes the gate skip one cycle at most.
C22_OneSkipPerWrite ==
    [][SkippedCycle => (lastWriteAt > 0 /\ poll.startedAt < lastWriteAt)]_vars

\* a cycle was skipped 2 s after a write, and the next one, 30 s later, runs
C22_Witness ==
    /\ lastWriteAt > 0
    /\ poll.pc = "getDevices"
    /\ poll.startedAt = lastWriteAt + 32000
    /\ calls = 3
    /\ calc.out = Num(30 * Scale)

(* ------------------------------ normalisation --------------------------- *)
\* t is x without the white space at its ends
IsTrimOf(t, x) ==
    \E i \in 1..(Len(x) + 1), j \in 0..Len(x) :
        /\ t = SubSeq(x, i, j)
        /\ \A k \in 1..Len(x) : (k < i \/ k > j) => SubSeq(x, k, k) \in WhiteSpace
        /\ Len(t) > 0 => /\ SubSeq(t, 1, 1) \notin WhiteSpace
                         /\ SubSeq(t, Len(t), Len(t)) \notin WhiteSpace

\* t and a are the same word up to the case of their letters
SameIgnoringCase(t, a) ==
    /\ Len(t) = Len(a)
    /\ \A k \in 1..Len(t) :
          \/ SubSeq(t, k, k) = SubSeq(a, k, k)
          \/ \E l \in 1..26 :
                {SubSeq(t, k, k), SubSeq(a, k, k)}
                    = {SubSeq("ABCDEFGHIJKLMNOPQRSTUVWXYZ", l, l),
                       SubSeq("abcdefghijklmnopqrstuvwxyz", l, l)}

\* x is a spelling of the alias a: a in any case, with white space around it
IsSpellingOf(x, a) ==
    \E i \in 1..(Len(x) + 1), j \in 0..Len(x) :
        IsTrimOf(SubSeq(x, i, j), x) /\ SameIgnoringCase(SubSeq(x, i, j), a)

AliasesOf(op) == IF op = "normalizeCode" THEN CODE_ALIASES ELSE MODE_ALIASES

\* C23: normalizeCode and normalizeMode return a string for every input, the
\* empty string for an empty, null or undefined input, the canonical value for
\* every spelling of an alias whatever the case of its letters, an unknown
\* input without the white space at its ends and otherwise unchanged, and
\* applied to their own result they return it unchanged.
C23_Normalize ==
    (calc.op \in Normalizers /\ calc.done)
        => /\ calc.out.t = "string"
           /\ calc.a \in {Undefined, Null, Str("")} => calc.out = Str("")
           /\ calc.a.t = "string" =>
                 LET x == calc.a.s
                     aliases == AliasesOf(calc.op)
                 IN  /\ \A a \in DOMAIN aliases :
                           IsSpellingOf(x, a) => calc.out = Str(aliases[a])
                     /\ (\A a \in DOMAIN aliases : ~IsSpellingOf(x, a))
                           => IsTrimOf(calc.out.s, x)
           /\ calc.b # Undefined => calc.b = calc.out

C23_Witness ==
    /\ calc.op = "normalizeCode"
    /\ calc.a = Str("PAUSE_SETTINGS\n")
    /\ calc.out = Str("pause_setting")
    /\ calc.b = Str("pause_setting")

(* ------------------------------ write lifecycle ------------------------- *)
\* the bookkeeping of a write: pending write, recent-write time, last write time
Bookkeeping == <<pending, recentWriteTs, lastWriteAt>>

\* C24: a write sets the local state (acknowledged) only in the step in which
\* its submission has returned, registers the pending write, the recent-write
\* time and the last write time only after that, and schedules the soft refresh
\* only together with that registration; a write whose submission fails leaves
\* the local state, the three registrations and the soft-refresh timers as
\* they were.
C24_WriteLifecycle ==
    [][/\ states' # states
           => /\ wr.pc \in {"send", "send2", "set2"}
              /\ wr'.pc \in {"set2", "note"}
              /\ UNCHANGED <<Bookkeeping, softTimers>>
       /\ (Bookkeeping' # Bookkeeping \/ softTimers' # softTimers)
           => /\ wr.pc = "note"
              /\ states[WrStoredKey] = AckState(wr.local)
              /\ pending'[WrStoredKey] = [has |-> TRUE, val |-> wr.local,
                                          until |-> now + WRITE_HOLD_MS]
              /\ recentWriteTs'[WrStoredKey] = now
              /\ lastWriteAt' = now
              /\ \E t \in softTimers' : t.dev = wr.dev /\ t.due = now + SOFT_REFRESH_MS
              /\ UNCHANGED states
       /\ (wr.pc \in {"send", "send2"} /\ wr'.pc = "idle")
           => UNCHANGED <<states, Bookkeeping, softTimers>>
       /\ (wr.pc # "note" /\ wr'.pc = "note") => wr.pc \in {"send", "send2", "set2"}
      ]_vars

C24_Witness ==
    /\ ev.kind = "noteWrite"
    /\ calls = 2
    /\ ticks > 0
    /\ lastWriteAt = now
    /\ states[<<"rt1", "manual_mode_fast">>] = AckState(Num(30000))
    /\ pending[<<"rt1", "temp_set">>] = [has |-> TRUE, val |-> Num(30000),
                                          until |-> now + WRITE_HOLD_MS]
    /\ \A c \in {"mode", "child_lock", "SetpointChangeSource"} :
          ~pending[<<"rt1", c>>].has

(* ------------------------------ submissions ----------------------------- *)
\* the HTTP requests one sendOne call has sent to the commands endpoint so far
Submitted == calc.sent + IF calc.stage = "idle" THEN 0 ELSE rq["sendCommand"].http

\* every answer of the commands endpoint to this sendOne call was a 401
OnlyUnauthorized ==
    /\ calc.b \in {Undefined, Str("401")}
    /\ rq["sendCommand"].s1 \in {0, 401}
    /\ rq["sendCommand"].s2 \in {0, 401}

\* C25: a sendOne call whose command keeps being answered with 401 submits it
\* to the commands endpoint at most twice, the first attempt and the one
\* retry of _request.
C25_AtMostTwoSubmissions ==
    (calc.op = "sendOne" /\ OnlyUnauthorized) => Submitted <= 2

(* -------------------------------- child_lock ---------------------------- *)
\* the boolean a child_lock write asks for
LockWanted == wr.val \in {Bool(TRUE), Str("true"), Num(Scale)}

\* C26: a child_lock write submits the number 1 or 0 first; only when that
\* submission has failed it submits the boolean, once; when the boolean fails
\* too the write ends with the local state, the registrations and the timers
\* unchanged; when one of the two succeeds the local state becomes the
\* boolean, acknowledged, and the pending write is registered with it.
C26_ChildLockFallback ==
    [][/\ (wr.pc = "idle" /\ wr'.pc # "idle" /\ wr'.code = "child_lock")
           => /\ wr'.pc = "send"
              /\ wr'.value = Num(IF wr'.val \in {Bool(TRUE), Str("true"), Num(Scale)}
                                 THEN Scale ELSE 0)
       /\ (wr.code = "child_lock" /\ wr.pc = "send" /\ wr'.pc # "send")
           => \/ /\ wr'.pc = "send2"
                 /\ wr'.value = Bool(LockWanted)
                 /\ UNCHANGED <<states, Bookkeeping, softTimers>>
              \/ /\ wr'.pc = "note"
                 /\ states'[<<wr.dev, "child_lock">>] = AckState(Bool(LockWanted))
       /\ (wr.code = "child_lock" /\ wr.pc = "send2" /\ wr'.pc # "send2")
           => \/ /\ wr'.pc = "idle"
                 /\ UNCHANGED <<states, Bookkeeping, softTimers>>
              \/ /\ wr'.pc = "note"
                 /\ states'[<<wr.dev, "child_lock">>] = AckState(Bool(LockWanted))
       /\ (wr.code = "child_lock" /\ wr.pc = "note" /\ wr'.pc # "note")
           => pending'[<<wr.dev, "child_lock">>].val = Bool(LockWanted)
      ]_vars

C26_Witness ==
    /\ wr.pc = "note"
    /\ wr.code = "child_lock"
    /\ wr.val = Str("true")
    /\ wr.value = Bool(TRUE)
    /\ ev.kind = "localSet"
    /\ states[<<"rt1", "child_lock">>] = AckState(Bool(TRUE))
    /\ ~pending[<<"rt1", "child_lock">>].has

(* -------------------------------- enum writes --------------------------- *)
\* the values of the two enum codes
EnumValues(code) ==
    IF code = "mode" THEN {"holiday", "manual", "leaving_home", "pause", "at_home", "auto"}
    ELSE {"schedule", "Externally"}

\* C27: the value a write of mode or SetpointChangeSource submits and stores
\* locally is one of the values of that code, whatever value was requested.
C27_EnumAllowList ==
    /\ (wr.pc # "idle" /\ wr.code \in {"mode", "SetpointChangeSource"})
          => /\ wr.value.t = "string"
             /\ wr.value.s \in EnumValues(wr.code)
             /\ wr.local = wr.value
    /\ \A code \in {"mode", "SetpointChangeSource"} :
          states[<<"rt1", code>>].exists
              => states[<<"rt1", code>>].val.s \in EnumValues(code)

(* -------------------------------- soft refresh -------------------------- *)
\* the soft refresh t ends in this step with the status array it has fetched
SoftReturns(t) == t \in softRuns /\ t \notin softRuns' /\ ev'.kind = "softReturned"

\* the soft refresh t ends in this step
SoftEnds(t) ==
    /\ t \in softRuns /\ t \notin softRuns'
    /\ ev'.kind \in {"softReturned", "softFetchFailed"}

\* C28: when the status fetch of a soft refresh succeeds, a fetched
\* temp_current that differs from the stored one is stored, acknowledged, in
\* that step, and a fetched value of the written code that equals the pending
\* write ends its hold.
C28_SoftRefreshEffect ==
    [][\A t \in softRuns : SoftReturns(t) =>
          \A i \in DOMAIN ev'.val :
              LET code == ev'.val[i].code
                  key == <<t.dev, code>>
                  value == ScaleValue(code, ev'.val[i].value)
              IN  /\ (code = "temp_current" /\ ~isSameVal(code, states[key].val, value))
                        => states'[key] = AckState(value)
                  /\ (code \in t.codes /\ pending[key].has /\ now < pending[key].until
                         /\ pending[key].val = value)
                        => ~pending'[key].has
      ]_vars

\* C29: a soft refresh that fails, at the fetch or afterwards, ends in its own
\* catch: the write handler, the poll and the adapter's phase are where they
\* were, and the pending writes, the recent-write times and the last write
\* time are unchanged.
C29_SoftRefreshFailure ==
    [][\A t \in softRuns : SoftEnds(t) =>
          /\ UNCHANGED <<wr, poll, phase, softTimers>>
          /\ UNCHANGED Bookkeeping
      ]_vars

C29_Witness ==
    /\ ev.kind = "softReturned"
    /\ Len(ev.val) = 4
    /\ pending[<<"rt1", "temp_set">>].has
    /\ now < pending[<<"rt1", "temp_set">>].until
    /\ recentWriteTs[<<"rt1", "temp_set">>] = lastWriteAt
    /\ lastWriteAt > 0
    /\ softRuns = {}

\* C30: a soft refresh for (deviceId, code) leaves the local state and the
\* pending write of every key of another device, and of every code of the
\* device other than the written code and temp_current, as they were.
C30_SoftRefreshFrame ==
    [][\A t \in softRuns : SoftEnds(t) =>
          \A k \in Keys :
              (k[1] # t.dev \/ k[2] \notin t.codes)
                  => states'[k] = states[k] /\ pending'[k] = pending[k]
      ]_vars

C30_Witness ==
    /\ ev.kind = "softReturned"
    /\ \E i \in DOMAIN ev.val :
          /\ ev.val[i].code = "upper_temp"
          /\ states[<<"rt1", "upper_temp">>] = AckState(Num(28000))
          /\ ScaleValue("upper_temp", ev.val[i].value) = Num(30000)
    /\ pending[<<"rt1", "mode">>].has
    /\ states[<<"rt2", "temp_current">>] = AckState(Num(19000))

(* ------------------------------ request headers ------------------------- *)
\* C31: every HTTP request of _request, first attempt or retry, of every
\* caller, carries the Authorization header with a bearer token together with
\* the default headers and the headers the caller supplied.
C31_BearerOnEveryRequest ==
    \A c \in Callers :
        rq[c].pc = "http"
            => /\ rq[c].bearer # 0
               /\ "Authorization" \in rq[c].hdrs
               /\ DefaultHeaders \subseteq rq[c].hdrs
               /\ CallerHeaders(c) \subseteq rq[c].hdrs

(* --------------------------- ensureToken failure ------------------------ *)
\* the call of c ends in this step with the error err of ensureToken
TokenError(c, err) ==
    /\ RqStep(c)
    /\ rq'[c].pc = "idle"
    /\ rq'[c].out = "error"
    /\ rq'[c].err = err

\* C32: ensureToken fails without any network request when no token URL is
\* configured, and fails with the error of the token request when that
\* request fails; both failures leave the cached token and its expiry as they
\* were, so that a call made while no valid token is cached issues a token
\* request again.
C32_TokenFailure ==
    [][\A c \in Callers :
          /\ TokenError(c, "tokenUrl not configured")
                => /\ ~api.tokenUrl
                   /\ rq'[c].posts = 0
                   /\ rq'[c].http = 0
                   /\ api'.token = api.token
                   /\ api'.tokenExpiry = api.tokenExpiry
          /\ TokenError(c, "Token request failed")
                => /\ rq[c].pc = "token"
                   /\ rq'[c].http = rq[c].http
                   /\ api'.token = api.token
                   /\ api'.tokenExpiry = api.tokenExpiry
          /\ (rq[c].pc = "idle" /\ RqStep(c) /\ api.tokenUrl /\ ~TokenCached(api, now))
                => rq'[c].pc = "token" /\ rq'[c].posts = 1]_vars

\* the token request of a first call has failed while an expired token was
\* cached, and the second call of the same caller is waiting for its own
\* token request
C32_Witness ==
    /\ rq["getDevices"].pc = "token"
    /\ rq["getDevices"].attempt = 1
    /\ rq["sendCommand"].out = "error"
    /\ rq["sendCommand"].err = "Token request failed"
    /\ api.requests = 3
    /\ api.token # 0

(* --------------------------- concurrent refresh ------------------------- *)
\* the step writes the cached token or its expiry
CacheWritten == api'.token # api.token \/ api'.tokenExpiry # api.tokenExpiry

\* the step drops the token and leaves the expiry
Invalidated == api'.token = 0 /\ api'.tokenExpiry = api.tokenExpiry

\* the step stores the token and the expiry of one new token response
StoredFromOneResponse ==
    /\ api'.issued = api.issued + 1
    /\ api'.token = api'.issued
    /\ api'.tokenExpiry = NowS + ExpiresInOf(api'.expiresIn)

\* C33: whatever the interleaving of the _request calls, every write to the
\* cached token and expiry is either the invalidation after a 401 or stores
\* both from one single token response, and the retry after a 401 is sent with
\* the token of a response obtained after the invalidation: it is not null and
\* not the token of the first attempt.
C33_ConcurrentRefresh ==
    [][/\ CacheWritten => Invalidated \/ StoredFromOneResponse
       /\ \A c \in Callers :
             (RqStep(c) /\ rq'[c].attempt = 2 /\ rq'[c].pc = "http")
                => /\ rq[c].pc = "token"
                   /\ StoredFromOneResponse
                   /\ rq'[c].bearer = api'.issued
                   /\ rq'[c].bearer # 0
                   /\ rq'[c].bearer # rq[c].bearer]_vars

\* both callers have answered a 401 with a refresh of their own and are
\* retrying, each with the token of its own response; the later one is cached
C33_Witness ==
    /\ \A c \in Callers : rq[c].pc = "http" /\ rq[c].attempt = 2 /\ rq[c].posts >= 1
    /\ rq["getDevices"].bearer # rq["sendCommand"].bearer
    /\ api.token \in {rq[c].bearer : c \in Callers}
    /\ api.issued >= 3

(* --------------------------- write bookkeeping -------------------------- *)
\* the keys with a recent-write timestamp
Noted == {k \in Keys : recentWriteTs[k] # 0}

\* the greatest of the recent-write timestamps, 0 when there is none
LatestNoted ==
    IF Noted = {} THEN 0
    ELSE CHOOSE t \in {recentWriteTs[k] : k \in Noted} : \A k \in Noted : recentWriteTs[k] <= t

\* C34: every key of the pending table has a recent-write timestamp ts, and
\* its hold expires at ts + 60 s, after the end ts + 15 s of the lag window;
\* the time of the last write is the greatest recent-write timestamp, 0 when
\* there is none.
C34_Bookkeeping ==
    /\ \A k \in Keys :
          pending[k].has
             => /\ k \in Noted
                /\ pending[k].until = recentWriteTs[k] + WRITE_HOLD_MS
                /\ recentWriteTs[k] + LAG_SUPPRESS_MS < pending[k].until
    /\ lastWriteAt = LatestNoted

\* two keys are held by writes at different times
C34_Witness ==
    \E j, k \in Keys :
        /\ pending[j].has
        /\ pending[k].has
        /\ recentWriteTs[j] < recentWriteTs[k]
        /\ lastWriteAt = recentWriteTs[k]

(* ------------------------ polls and the bookkeeping --------------------- *)
\* the step is one of a poll cycle or of a soft refresh
PollOrSoftStep == poll' # poll \/ softRuns' # softRuns

\* the step removes the pending entry of k, which the poll found in force and
\* equal to the cloud value of its pair
RemovedOnMatch(k) ==
    /\ pending'[k] = NoPending
    /\ poll.pc = "code"
    /\ k = PollKey
    /\ poll.startedAt < pending[k].until
    /\ HoldSame(PollValue, pending[k].val)

\* the step sets a pending entry, a recent-write timestamp or the time of the
\* last write
Registers ==
    \/ recentWriteTs' # recentWriteTs
    \/ lastWriteAt' # lastWriteAt
    \/ \E k \in Keys : pending'[k] # pending[k] /\ pending'[k].has

\* C35: no step of a poll cycle or of a soft refresh adds a pending entry,
\* changes the value or expiry of one, or changes a recent-write timestamp or
\* the time of the last write; all it does to them is remove pending entries
\* that match the cloud value.  Only the _noteWrite of a write that the cloud
\* accepted sets any of them.
C35_PollFrame ==
    [][/\ PollOrSoftStep
          => /\ recentWriteTs' = recentWriteTs
             /\ lastWriteAt' = lastWriteAt
             /\ \A k \in Keys :
                   pending'[k] # pending[k] => pending[k].has /\ RemovedOnMatch(k)
       /\ Registers => wr.pc = "note" /\ ev'.kind = "noteWrite"]_vars

\* a poll has removed the pending entry of a write whose timestamp stays
C35_Witness ==
    /\ ev.kind = "match"
    /\ ~pending[ev.key].has
    /\ recentWriteTs[ev.key] # 0
    /\ lastWriteAt = recentWriteTs[ev.key]

(* ------------------------------ metadata sync --------------------------- *)
\* the metadata of the state object of the polled pair, before and after
MetaBefore == objects[PollKey]
MetaAfter == objects'[PollKey]

\* C36 as stated: every polled pair has its state object synced before the
\* hold check, whatever the check decides; the sync leaves the stored values
\* alone; and once the object of a code exists, a poll of the same code
\* changes nothing in it.
C36_MetadataSync ==
    [][PollPairStep
          => /\ MetaAfter = StateObject(PollCode, PollValue)
             /\ states' = states
             /\ MetaBefore.exists => MetaAfter = MetaBefore]_vars

\* C36 amended: as above, where a poll of the same code changes nothing in
\* the object when the code has a type hint or the value is of the type the
\* object has.
C36_MetadataSyncHinted ==
    [][PollPairStep
          => /\ MetaAfter = StateObject(PollCode, PollValue)
             /\ states' = states
             /\ (MetaBefore.exists
                  /\ (TYPE_HINTS(PollCode) # "" \/ TypeOf(PollValue) = MetaBefore.type))
                   => MetaAfter = MetaBefore]_vars

\* a poll has found the setpoint held and has synced its object all the same;
\* the stored setpoint is the local one
C36_Witness ==
    /\ ev.kind = "held"
    /\ ev.key = <<"rt1", "temp_set">>
    /\ objects[ev.key] = StateObject("temp_set", ev.val)
    /\ states[ev.key].val = pending[ev.key].val
    /\ objects[<<"rt1", "window_state">>].exists

(* --------------------------- startup failures --------------------------- *)
\* after the step the adapter has failed to start and has done nothing: no
\* poll cycle, no timer callback, no state-change event, no state, no object
Halted ==
    /\ phase' = "failed"
    /\ poll' = PollIdle
    /\ wr' = WrIdle
    /\ calls' = 0
    /\ softTimers' = {} /\ softRuns' = {}
    /\ \A k \in Keys : ~states'[k].exists /\ ~pending'[k].has
    /\ \A i \in ObjIds : ~objects'[i].exists

\* C37: when the token request of onReady fails, no poll timer is set and no
\* write pattern is subscribed: no poll cycle runs and no write is handled,
\* then and ever after.  A failure of the first poll cycle, with the token
\* acquired, leaves the startup on its way: the next step of onReady sets the
\* timer and subscribes.
C37_StartupFailure ==
    [][/\ (phase = "token" /\ ev'.kind = "startupFailed") => Halted
       /\ phase = "failed" => Halted
       /\ phase' = "failed" => phase \in {"token", "failed"}
       /\ (phase = "firstPoll" /\ poll.pc = "getDevices" /\ ev'.kind = "pollError")
             => phase' = "firstPoll" /\ poll'.pc = "idle"
       /\ (phase = "firstPoll" /\ poll.pc = "idle" /\ ev'.kind # "tick")
             => phase' = "running" /\ ev'.kind = "subscribed"]_vars

\* the token request of onReady has failed, and all the time of the model
\* has passed without a call of the adapter
C37_Witness ==
    /\ phase = "failed"
    /\ ticks = MaxTicks
    /\ calls = 0
    /\ poll = PollIdle
    /\ wr = WrIdle

(* --------------------------- overlapping writes ------------------------- *)
\* both handlers have completed
AllCompleted == wr = WrIdle /\ calc.other = WrIdle

\* the value of the command the cloud accepted last
LastAccepted == calc.accepted[Len(calc.accepted)]

\* C38: when the handlers of two writes to the same state overlap at their
\* awaits, then once both have completed the pending value and the stored
\* local value are the value of the command the cloud accepted last.
C38_LastAcceptedWins ==
    (AllCompleted /\ Len(calc.accepted) >= 2)
        => /\ pending[<<"rt1", "temp_set">>].val = LastAccepted
           /\ states[<<"rt1", "temp_set">>].val = LastAccepted

(* ---------------------------- manual_mode_fast -------------------------- *)
\* the running handler is one of a write to manual_mode_fast
FastWrite == wr.code = "manual_mode_fast"
FastKey == <<wr.dev, "manual_mode_fast">>
SetKey == <<wr.dev, "temp_set">>

\* C39: a write to manual_mode_fast submits one command, with the code
\* temp_set and never manual_mode_fast; when the cloud has accepted it the
\* local states temp_set and manual_mode_fast are both set, acknowledged, to
\* the written value, and the pending entry and the recent-write timestamp
\* are registered under the key of temp_set only.
C39_FastShortcut ==
    [][/\ ev'.kind = "submit"
          => /\ ev'.key[2] # "manual_mode_fast"
             /\ FastWrite => wr.pc = "getUpper" /\ ev'.key = SetKey /\ wr'.pc = "send"
       /\ (FastWrite /\ wr.pc = "send" /\ wr' # wr)
          => \/ /\ wr' = WrIdle
                /\ states' = states
                /\ Bookkeeping' = Bookkeeping
             \/ /\ wr'.pc = "set2"
                /\ states' = [states EXCEPT ![SetKey] = AckState(ToNumber(wr.val))]
                /\ Bookkeeping' = Bookkeeping
       /\ (FastWrite /\ wr.pc = "set2" /\ wr' # wr)
          => /\ wr'.pc = "note"
             /\ states' = [states EXCEPT ![FastKey] = AckState(ToNumber(wr.val))]
             /\ Bookkeeping' = Bookkeeping
       /\ (FastWrite /\ wr.pc = "note" /\ wr' # wr)
          => /\ wr' = WrIdle
             /\ states' = states
             /\ pending' = [pending EXCEPT ![SetKey] =
                               [has |-> TRUE, val |-> ToNumber(wr.val),
                                until |-> now + WRITE_HOLD_MS]]
             /\ recentWriteTs' = [recentWriteTs EXCEPT ![SetKey] = now]
             /\ lastWriteAt' = now
       /\ \A d \in Devices :
             <<d, "manual_mode_fast">> \in Keys
                => /\ ~pending'[<<d, "manual_mode_fast">>].has
                   /\ recentWriteTs'[<<d, "manual_mode_fast">>] = 0]_vars

\* a write of 30.0 to manual_mode_fast has completed: both states hold 30.0,
\* and the setpoint is pending
C39_Witness ==
    /\ wr = WrIdle
    /\ ev.kind = "noteWrite"
    /\ ev.key = <<"rt1", "temp_set">>
    /\ states[<<"rt1", "manual_mode_fast">>] = AckState(Num(30000))
    /\ states[<<"rt1", "temp_set">>] = AckState(Num(30000))
    /\ pending[<<"rt1", "temp_set">>].val = Num(30000)
    /\ ~pending[<<"rt1", "manual_mode_fast">>].has

====
